---------------------------- MODULE Spec2Model ----------------------------
(***************************************************************************)
(* PDF repair tool: the structure validator, the corruption classifier,    *)
(* the type-level validator and the repair entry point, modelled over      *)
(* byte buffers.  A buffer is a sequence of bytes (0..255); a decoded      *)
(* text is a sequence of UTF-16 code units, as in the JavaScript source.   *)
(***************************************************************************)
EXTENDS Integers, Sequences, FiniteSets, TLC

(***************************************************************************)
(* Bounds of the explored inputs.                                          *)
(***************************************************************************)
\* how many body fragments an input buffer is assembled from, at most
MaxBody == 1

(***************************************************************************)
(* String literals of the source, as code-unit sequences.                  *)
(***************************************************************************)
\* '%PDF-'
S_PDF == <<37, 80, 68, 70, 45>>
\* 'stream'
S_stream == <<115, 116, 114, 101, 97, 109>>
\* 'endstream'
S_endstream == <<101, 110, 100, 115, 116, 114, 101, 97, 109>>
\* 'xref'
S_xref == <<120, 114, 101, 102>>
\* 'startxref'
S_startxref == <<115, 116, 97, 114, 116, 120, 114, 101, 102>>
\* 'trailer'
S_trailer == <<116, 114, 97, 105, 108, 101, 114>>
\* '%%EOF'
S_EOF == <<37, 37, 69, 79, 70>>
\* '/Encrypt'
S_Encrypt == <<47, 69, 110, 99, 114, 121, 112, 116>>

\* the JavaScript value undefined, where a result field is optional
undefined == "undefined"

(***************************************************************************)
(* Text decoding.  new TextDecoder().decode(bytes) and Buffer.toString()   *)
(* decode UTF-8 with replacement: an ill-formed sequence becomes one       *)
(* U+FFFD per maximal subpart, a 4-byte sequence becomes a surrogate pair. *)
(* TextDecoder drops a leading byte order mark, Buffer.toString keeps it.  *)
(***************************************************************************)
RECURSIVE UTF8Decode(_, _)
UTF8Decode(b, i) ==
    IF i > Len(b) THEN <<>>
    ELSE LET c     == b[i]
             at(k) == IF i + k <= Len(b) THEN b[i + k] ELSE -1
             \* the end of the run of ASCII bytes that starts at i
             high  == {j \in i..Len(b) : b[j] >= 128}
             j     == IF high = {} THEN Len(b) + 1
                      ELSE CHOOSE x \in high : \A y \in high : x <= y
             need  == IF c \in 194..223 THEN 1
                      ELSE IF c \in 224..239 THEN 2
                      ELSE IF c \in 240..244 THEN 3
                      ELSE -1
             lo2   == IF c = 224 THEN 160 ELSE IF c = 240 THEN 144 ELSE 128
             hi2   == IF c = 237 THEN 159 ELSE IF c = 244 THEN 143 ELSE 191
             ok1   == at(1) \in lo2..hi2
             ok2   == ok1 /\ at(2) \in 128..191
             ok3   == ok2 /\ at(3) \in 128..191
             cp4   == (c - 240) * 262144 + (at(1) - 128) * 4096
                        + (at(2) - 128) * 64 + (at(3) - 128) - 65536
         IN  IF c < 128 THEN SubSeq(b, i, j - 1) \o UTF8Decode(b, j)
             ELSE IF need = 1 /\ ok1
                  THEN <<(c - 192) * 64 + (at(1) - 128)>> \o UTF8Decode(b, i + 2)
             ELSE IF need = 2 /\ ok2
                  THEN <<(c - 224) * 4096 + (at(1) - 128) * 64 + (at(2) - 128)>>
                          \o UTF8Decode(b, i + 3)
             ELSE IF need = 3 /\ ok3
                  THEN <<55296 + (cp4 \div 1024), 56320 + (cp4 % 1024)>>
                          \o UTF8Decode(b, i + 4)
             ELSE IF need = 3 /\ ok2 THEN <<65533>> \o UTF8Decode(b, i + 3)
             ELSE IF need >= 2 /\ ok1 THEN <<65533>> \o UTF8Decode(b, i + 2)
             ELSE <<65533>> \o UTF8Decode(b, i + 1)

BufferToString(b) == UTF8Decode(b, 1)

TextDecode(b) ==
    LET u == UTF8Decode(b, 1)
    IN  IF Len(u) > 0 /\ u[1] = 65279 THEN Tail(u) ELSE u

\* Uint8Array.prototype.slice(start, end) / Buffer.prototype.slice(start, end)
\* with 0-based, end-exclusive, clamped indices
Slice(b, start, end) ==
    SubSeq(b, start + 1, IF end > Len(b) THEN Len(b) ELSE end)

\* Buffer.prototype.slice(-n): the last n bytes (the whole buffer if shorter)
SliceLast(b, n) ==
    SubSeq(b, (IF Len(b) > n THEN Len(b) - n ELSE 0) + 1, Len(b))

(***************************************************************************)
(* Regular-expression building blocks (ECMAScript semantics).              *)
(***************************************************************************)
\* \d
Digit(c) == c \in 48..57

\* \s : white space and line terminators of ECMAScript
WhiteSpace(c) ==
    c \in {9, 10, 11, 12, 13, 32, 160, 5760, 8232, 8233, 8239, 8287, 12288, 65279}
          \cup (8192..8202)

\* . without the s flag: anything but a line terminator
NotLineTerminator(c) == c \notin {10, 13, 8232, 8233}

\* the literal w occurs in t at (1-based) position i
IsAt(t, i, w) ==
    /\ i >= 1
    /\ i + Len(w) - 1 <= Len(t)
    /\ \A k \in 1..Len(w) : t[i + k - 1] = w[k]

\* String.prototype.includes
Includes(t, w) == \E i \in 1..(Len(t) - Len(w) + 1) : IsAt(t, i, w)

\* membership in a character class of a pattern
InClass(cls, c) ==
    CASE cls = "\\d" -> Digit(c)
      [] cls = "\\s" -> WhiteSpace(c)
      [] cls = "."   -> NotLineTerminator(c)

\* the position just after the longest run of characters of class cls that
\* starts at i (i itself when there is none)
RunEnd(t, i, cls) ==
    LET stops == {j \in i..Len(t) : ~InClass(cls, t[j])}
    IN  IF stops = {} THEN Len(t) + 1
        ELSE CHOOSE x \in stops : \A y \in stops : x <= y

\* parseInt of a string of decimal digits
RECURSIVE ParseInt(_)
ParseInt(ds) ==
    IF ds = <<>> THEN 0
    ELSE ParseInt(SubSeq(ds, 1, Len(ds) - 1)) * 10 + (ds[Len(ds)] - 48)

Min(S) == CHOOSE x \in S : \A y \in S : x <= y

\* RegExp.prototype.test on a regular expression object with the given flags
\* and lastIndex, where starts holds the (1-based) positions at which the
\* pattern matches the text and every match is matchLen long.  Without the g
\* flag the search starts at 0 and lastIndex is left alone; with it the
\* search starts at lastIndex, which is moved behind the match or reset to 0.
RegExpTest(flags, lastIdx, starts, matchLen, textLen) ==
    LET global == "g" \in flags
        from   == IF global THEN lastIdx ELSE 0
        cands  == {i \in starts : i - 1 >= from}
    IN  IF from > textLen \/ cands = {}
        THEN [found |-> FALSE, lastIndex |-> IF global THEN 0 ELSE lastIdx]
        ELSE [found |-> TRUE,
              lastIndex |-> IF global THEN Min(cands) - 1 + matchLen ELSE lastIdx]

(***************************************************************************)
(* Structure validator.                                                    *)
(***************************************************************************)
MAX_HEADER_SIZE == 1024
MAX_XREF_ENTRIES == 1000000
MAX_STREAM_SIZE == 104857600

\* /%PDF-\d\.\d/ matches t at position i
PDF_HEADER_PATTERN(t, i) ==
    /\ IsAt(t, i, S_PDF)
    /\ i + 7 <= Len(t)
    /\ Digit(t[i + 5])
    /\ t[i + 6] = 46
    /\ Digit(t[i + 7])

\* a plausible slip: the module-level pattern declared with the g flag
PDF_HEADER_PATTERN_global == {"g"}

\* the flags of the module-level regular expression object: none
PDF_HEADER_PATTERN_flags == {}

\* a plausible slip: the whole buffer is scanned, not its first 1024 bytes
validatePDFHeader_wholeBuffer(data, lastIdx) ==
    LET headerText == TextDecode(data)
        starts     == {i \in 1..Len(headerText) : PDF_HEADER_PATTERN(headerText, i)}
        r          == RegExpTest(PDF_HEADER_PATTERN_flags, lastIdx, starts, 8,
                                 Len(headerText))
    IN  [valid |-> r.found,
         error |-> IF r.found THEN undefined
                   ELSE "Invalid PDF header: Missing or malformed PDF version signature",
         lastIndex |-> r.lastIndex]

validatePDFHeader(data, lastIdx) ==
    LET headerText == TextDecode(Slice(data, 0, MAX_HEADER_SIZE))
        starts     == {i \in 1..Len(headerText) : PDF_HEADER_PATTERN(headerText, i)}
        r          == RegExpTest(PDF_HEADER_PATTERN_flags, lastIdx, starts, 8,
                                 Len(headerText))
    IN  [valid |-> r.found,
         error |-> IF r.found THEN undefined
                   ELSE "Invalid PDF header: Missing or malformed PDF version signature",
         lastIndex |-> r.lastIndex]

\* dataText.match(/xref\s+\d+\s+(\d+)/): the first match's group 1, as a
\* sequence holding the matched digits, or the empty sequence for null
XrefCountMatch(t) ==
    LET j1(i) == RunEnd(t, i + 4, "\\s")
        j2(i) == RunEnd(t, j1(i), "\\d")
        j3(i) == RunEnd(t, j2(i), "\\s")
        j4(i) == RunEnd(t, j3(i), "\\d")
        starts == {i \in 1..Len(t) :
                     /\ IsAt(t, i, S_xref)
                     /\ j1(i) > i + 4
                     /\ j2(i) > j1(i)
                     /\ j3(i) > j2(i)
                     /\ j4(i) > j3(i)}
    IN  IF starts = {} THEN <<>>
        ELSE <<SubSeq(t, j3(Min(starts)), j4(Min(starts)) - 1)>>

validateXRefTable(data) ==
    LET dataText  == TextDecode(data)
        xrefMatch == XrefCountMatch(dataText)
    IN  IF ~Includes(dataText, S_startxref)
        THEN [valid |-> FALSE,
              error |-> "Invalid PDF structure: Missing startxref marker"]
        ELSE IF xrefMatch # <<>> /\ ParseInt(xrefMatch[1]) > MAX_XREF_ENTRIES
        THEN [valid |-> FALSE,
              error |-> "Invalid xref table: Too many entries"]
        ELSE [valid |-> TRUE, error |-> undefined]

\* dataText.match(/stream\s*([\s\S]*?)\s*endstream/g): the lengths of the
\* successive non-overlapping matches found from position from on; a match
\* runs from a 'stream' to the end of the first 'endstream' behind it
RECURSIVE StreamMatches(_, _)
StreamMatches(t, from) ==
    LET ends(i) == {p \in (i + 6)..Len(t) : IsAt(t, p, S_endstream)}
        starts  == {i \in from..Len(t) : IsAt(t, i, S_stream) /\ ends(i) # {}}
    IN  IF starts = {} THEN <<>>
        ELSE LET i == Min(starts)
                 p == Min(ends(i))
             IN  <<p + 9 - i>> \o StreamMatches(t, p + 9)

validateObjectStreams(data) ==
    LET dataText      == TextDecode(data)
        streamMatches == StreamMatches(dataText, 1)
        tooBig        == {i \in 1..Len(streamMatches) :
                            streamMatches[i] > MAX_STREAM_SIZE}
    IN  IF tooBig # {}
        THEN [valid |-> FALSE,
              error |-> "Object stream exceeds maximum allowed size"]
        ELSE [valid |-> TRUE, error |-> undefined]

\* a plausible slip: the xref check's outcome is reported in details but left
\* out of isValid and of the error list
PDFValidationResult_skipXref(headerValid, xrefValid, streamValid) ==
    [isValid  |-> headerValid.valid /\ streamValid.valid,
     errors   |-> (IF headerValid.valid THEN <<>> ELSE <<headerValid.error>>)
                  \o (IF streamValid.valid THEN <<>> ELSE <<streamValid.error>>),
     warnings |-> <<>>,
     details  |-> [headerValid |-> headerValid.valid,
                   xrefValid   |-> xrefValid.valid,
                   streamValid |-> streamValid.valid],
     lastIndex |-> headerValid.lastIndex]

\* the result validatePDFStructure assembles from the three sub-checks: an
\* error pushed and isValid cleared for each failed one
PDFValidationResult(headerValid, xrefValid, streamValid) ==
    [isValid  |-> headerValid.valid /\ xrefValid.valid /\ streamValid.valid,
     errors   |-> (IF headerValid.valid THEN <<>> ELSE <<headerValid.error>>)
                  \o (IF xrefValid.valid THEN <<>> ELSE <<xrefValid.error>>)
                  \o (IF streamValid.valid THEN <<>> ELSE <<streamValid.error>>),
     warnings |-> <<>>,
     details  |-> [headerValid |-> headerValid.valid,
                   xrefValid   |-> xrefValid.valid,
                   streamValid |-> streamValid.valid],
     lastIndex |-> headerValid.lastIndex]

\* validatePDFStructure(buffer), called when the header pattern's lastIndex
\* is lastIdx; the result carries the pattern's lastIndex after the call.
\* (The catch branch of the source needs a throw, and no call made here
\* throws: TextDecoder is used in its non-fatal mode.)
validatePDFStructure(buffer, lastIdx) ==
    PDFValidationResult(validatePDFHeader(buffer, lastIdx),
                        validateXRefTable(buffer),
                        validateObjectStreams(buffer))

(***************************************************************************)
(* Repair entry point and the type-level validator.                        *)
(***************************************************************************)
\* a plausible slip: a buffer without the signature is handed on as repaired
repairPDF_noHeaderCheck(pdfBuffer) ==
    IF Len(pdfBuffer) = 0
    THEN [isValid |-> FALSE, repairedPDF |-> <<>>,
          error |-> "Invalid PDF buffer provided", applied |-> <<>>]
    ELSE [isValid |-> TRUE, repairedPDF |-> <<pdfBuffer>>,
          error |-> undefined, applied |-> <<"recoverHeader">>]

\* another: the pass-through drops the last byte of the buffer it returns
repairPDF_truncating(pdfBuffer) ==
    IF Len(pdfBuffer) = 0
    THEN [isValid |-> FALSE, repairedPDF |-> <<>>,
          error |-> "Invalid PDF buffer provided", applied |-> <<>>]
    ELSE IF BufferToString(Slice(pdfBuffer, 0, 5)) # S_PDF
    THEN [isValid |-> FALSE, repairedPDF |-> <<>>,
          error |-> "Invalid PDF header", applied |-> <<>>]
    ELSE [isValid |-> TRUE,
          repairedPDF |-> <<SubSeq(pdfBuffer, 1, Len(pdfBuffer) - 1)>>,
          error |-> undefined, applied |-> <<>>]

\* repairPDF(pdfBuffer).  repairedPDF is a sequence holding the returned
\* buffer, empty when the field is absent; applied lists the recovery
\* transforms the call ran (the source runs none).
repairPDF(pdfBuffer) ==
    IF Len(pdfBuffer) = 0
    THEN [isValid |-> FALSE, repairedPDF |-> <<>>,
          error |-> "Invalid PDF buffer provided", applied |-> <<>>]
    ELSE IF BufferToString(Slice(pdfBuffer, 0, 5)) # S_PDF
    THEN [isValid |-> FALSE, repairedPDF |-> <<>>,
          error |-> "Invalid PDF header", applied |-> <<>>]
    ELSE [isValid |-> TRUE, repairedPDF |-> <<pdfBuffer>>,
          error |-> undefined, applied |-> <<>>]

\* validatePDF(pdfBuffer) of the shared types module
validatePDF(pdfBuffer) ==
    LET header    == BufferToString(Slice(pdfBuffer, 0, 5))
        lastBytes == BufferToString(SliceLast(pdfBuffer, 6))
        content   == BufferToString(pdfBuffer)
        errors    ==
            (IF header # S_PDF
             THEN <<[type |-> "HEADER_ERROR", message |-> "Invalid PDF header"]>>
             ELSE <<>>)
            \o (IF ~Includes(lastBytes, S_EOF)
                THEN <<[type |-> "STRUCTURE_ERROR", message |-> "Missing EOF marker"]>>
                ELSE <<>>)
            \o (IF ~Includes(content, S_xref)
                THEN <<[type |-> "XREF_ERROR", message |-> "Missing xref table"]>>
                ELSE <<>>)
            \o (IF ~Includes(content, S_trailer)
                THEN <<[type |-> "TRAILER_ERROR", message |-> "Missing trailer"]>>
                ELSE <<>>)
            \o (IF Includes(content, S_Encrypt)
                THEN <<[type |-> "ENCRYPTION_ERROR",
                        message |-> "Encrypted PDFs are not supported"]>>
                ELSE <<>>)
    IN  [isValid |-> errors = <<>>, errors |-> errors]

(***************************************************************************)
(* Corruption classifier.                                                  *)
(***************************************************************************)
\* an issue string; a and b are the numbers interpolated into the text
Issue(text, a, b) == [text |-> text, a |-> a, b |-> b]

\* HEADER_CORRUPTION_PATTERNS[n - 1].test(t)
HEADER_CORRUPTION_PATTERNS(n, t) ==
    CASE n = 1 ->   \* /^%PDF-[^1-7]\.[^0-9]/
            /\ IsAt(t, 1, S_PDF)
            /\ Len(t) >= 8
            /\ t[6] \notin 49..55
            /\ t[7] = 46
            /\ ~Digit(t[8])
      [] n = 2 ->   \* /%PDF-\d\.\d.{100,}/
            \E i \in 1..Len(t) :
                /\ PDF_HEADER_PATTERN(t, i)
                /\ RunEnd(t, i + 8, ".") - (i + 8) >= 100
      [] n = 3 ->   \* /^\s+%PDF/
            /\ Len(t) > 0
            /\ WhiteSpace(t[1])
            /\ IsAt(t, RunEnd(t, 1, "\\s"), SubSeq(S_PDF, 1, 4))

\* the lookahead \d+\s+\d+\s*\n succeeds at position p
XrefSubsectionAt(t, p) ==
    LET d1 == RunEnd(t, p, "\\d")
        w1 == RunEnd(t, d1, "\\s")
        d2 == RunEnd(t, w1, "\\d")
    IN  /\ d1 > p
        /\ w1 > d1
        /\ d2 > w1
        /\ \E k \in d2..(RunEnd(t, d2, "\\s") - 1) : t[k] = 10

\* XREF_CORRUPTION_PATTERNS[n - 1].test(t)
XREF_CORRUPTION_PATTERNS(n, t) ==
    CASE n = 1 ->   \* /xref\s*\n(?!\d+\s+\d+\s*\n)/
            \E i \in 1..Len(t) :
                /\ IsAt(t, i, S_xref)
                /\ \E j \in (i + 4)..(RunEnd(t, i + 4, "\\s") - 1) :
                       t[j] = 10 /\ ~XrefSubsectionAt(t, j + 1)
      [] n = 2 ->   \* /\n\d{10}\s[^0-9fn]\s\d{5}/
            \E i \in 1..(Len(t) - 18) :
                /\ t[i] = 10
                /\ \A k \in 1..10 : Digit(t[i + k])
                /\ WhiteSpace(t[i + 11])
                /\ ~Digit(t[i + 12]) /\ t[i + 12] \notin {102, 110}
                /\ WhiteSpace(t[i + 13])
                /\ \A k \in 14..18 : Digit(t[i + k])
      [] n = 3 ->   \* /\n\d{9}[^0-9]\s[0-9fn]\s\d{5}/
            \E i \in 1..(Len(t) - 18) :
                /\ t[i] = 10
                /\ \A k \in 1..9 : Digit(t[i + k])
                /\ ~Digit(t[i + 10])
                /\ WhiteSpace(t[i + 11])
                /\ Digit(t[i + 12]) \/ t[i + 12] \in {102, 110}
                /\ WhiteSpace(t[i + 13])
                /\ \A k \in 14..18 : Digit(t[i + k])

\* the lookahead \s*\n succeeds at position p
NewlineAhead(t, p) ==
    \E k \in p..(RunEnd(t, p, "\\s") - 1) : t[k] = 10

\* STREAM_CORRUPTION_PATTERNS[n - 1].test(t)
STREAM_CORRUPTION_PATTERNS(n, t) ==
    CASE n = 1 ->   \* /stream[\s\S]*?endstream/
            \E i \in 1..Len(t) :
                /\ IsAt(t, i, S_stream)
                /\ \E p \in (i + 6)..Len(t) : IsAt(t, p, S_endstream)
      [] n = 2 ->   \* /stream(?!\s*\n)/
            \E i \in 1..Len(t) :
                IsAt(t, i, S_stream) /\ ~NewlineAhead(t, i + 6)
      [] n = 3 ->   \* /endstream(?!\s*\n)/
            \E i \in 1..Len(t) :
                IsAt(t, i, S_endstream) /\ ~NewlineAhead(t, i + 9)

\* patterns[n - 1].test(t) for one of the three pattern tables
PatternTest(table, n, t) ==
    CASE table = "HEADER" -> HEADER_CORRUPTION_PATTERNS(n, t)
      [] table = "XREF"   -> XREF_CORRUPTION_PATTERNS(n, t)
      [] table = "STREAM" -> STREAM_CORRUPTION_PATTERNS(n, t)

\* the issues pushed by patterns.forEach: one per matching pattern, in order
RECURSIVE PatternIssues(_, _, _, _)
PatternIssues(table, label, t, n) ==
    IF n > 3 THEN <<>>
    ELSE (IF PatternTest(table, n, t) THEN <<Issue(label, n, 0)>> ELSE <<>>)
         \o PatternIssues(table, label, t, n + 1)

checkHeaderCorruption(text) ==
    IF ~IsAt(text, 1, S_PDF)
    THEN <<Issue("Missing PDF header", 0, 0)>>
    ELSE PatternIssues("HEADER", "Header corruption detected: Pattern", text, 1)

checkXRefCorruption(text) ==
    IF ~Includes(text, <<10>> \o S_xref \o <<10>>)
    THEN <<Issue("Missing cross-reference table", 0, 0)>>
    ELSE PatternIssues("XREF", "Cross-reference corruption detected: Pattern",
                       text, 1)

\* (text.match(/w/g) || []).length for a literal w that cannot overlap itself
MatchCount(t, w) == Cardinality({i \in 1..Len(t) : IsAt(t, i, w)})

checkStreamCorruption(text) ==
    LET streamCount    == MatchCount(text, S_stream)
        endstreamCount == MatchCount(text, S_endstream)
    IN  (IF streamCount # endstreamCount
         THEN <<Issue("Mismatched stream/endstream pairs",
                      streamCount, endstreamCount)>>
         ELSE <<>>)
        \o PatternIssues("STREAM", "Stream corruption detected: Pattern", text, 1)

\* a plausible slip: the stream threshold compared with >= instead of >
calculateCorruptionSeverity_offByOne(headerIssues, xrefIssues, streamIssues) ==
    IF Len(headerIssues) > 0 THEN "CRITICAL"
    ELSE IF Len(xrefIssues) > 0 THEN "HIGH"
    ELSE IF Len(streamIssues) >= 2 THEN "HIGH"
    ELSE IF Len(streamIssues) > 0 THEN "MEDIUM"
    ELSE "LOW"

calculateCorruptionSeverity(headerIssues, xrefIssues, streamIssues) ==
    IF Len(headerIssues) > 0 THEN "CRITICAL"
    ELSE IF Len(xrefIssues) > 0 THEN "HIGH"
    ELSE IF Len(streamIssues) > 2 THEN "HIGH"
    ELSE IF Len(streamIssues) > 0 THEN "MEDIUM"
    ELSE "LOW"

\* a plausible slip: the xref strategy is chosen only when no header strategy is
determineRepairStrategy_elseIf(headerIssues, xrefIssues, streamIssues) ==
    (IF Len(headerIssues) > 0 THEN <<"Reconstruct PDF header">>
     ELSE IF Len(xrefIssues) > 0 THEN <<"Rebuild cross-reference table">>
     ELSE <<>>)
    \o (IF Len(streamIssues) > 0
        THEN <<"Fix stream delimiters", "Recalculate stream lengths">> ELSE <<>>)

determineRepairStrategy(headerIssues, xrefIssues, streamIssues) ==
    (IF Len(headerIssues) > 0 THEN <<"Reconstruct PDF header">> ELSE <<>>)
    \o (IF Len(xrefIssues) > 0 THEN <<"Rebuild cross-reference table">> ELSE <<>>)
    \o (IF Len(streamIssues) > 0
        THEN <<"Fix stream delimiters", "Recalculate stream lengths">> ELSE <<>>)

checkPDFCorruption(buffer) ==
    LET text         == TextDecode(buffer)
        headerIssues == checkHeaderCorruption(text)
        xrefIssues   == checkXRefCorruption(text)
        streamIssues == checkStreamCorruption(text)
    IN  [isCorrupted |-> Len(headerIssues) > 0 \/ Len(xrefIssues) > 0
                            \/ Len(streamIssues) > 0,
         corruptions |-> [header  |-> headerIssues,
                          xref    |-> xrefIssues,
                          streams |-> streamIssues],
         severity |-> calculateCorruptionSeverity(headerIssues, xrefIssues,
                                                  streamIssues),
         repairStrategy |-> determineRepairStrategy(headerIssues, xrefIssues,
                                                    streamIssues)]

(***************************************************************************)
(* Input buffers: a head, up to MaxBody body fragments, an xref section    *)
(* and a tail, each optional.  The fragments are those of the test         *)
(* fixture createValidPDFBuffer and damaged variants of them.              *)
(***************************************************************************)
Heads ==
    { <<>>,
      \* '%PDF-1.7\n'
      <<37, 80, 68, 70, 45, 49, 46, 55, 10>>,
      \* '%PDF-9.x\n'
      <<37, 80, 68, 70, 45, 57, 46, 120, 10>>,
      \* '%PDF-9.9'
      <<37, 80, 68, 70, 45, 57, 46, 57>>,
      \* a byte order mark, then '%PDF-1.7\n'
      <<239, 187, 191>> \o <<37, 80, 68, 70, 45, 49, 46, 55, 10>>,
      \* '%PDF-1.7', 100 times 'A', '\n'
      <<37, 80, 68, 70, 45, 49, 46, 55>> \o [i \in 1..100 |-> 65] \o <<10>> }

BodyFragments ==
    { \* '1 0 obj\n<<>>\nendobj\n'
      <<49, 32, 48, 32, 111, 98, 106, 10, 60, 60, 62, 62, 10, 101, 110, 100,
      111, 98, 106, 10>>,
      \* '2 0 obj\n<< /Length 1 >>\nstream\nA\nendstream\nendobj\n'
      <<50, 32, 48, 32, 111, 98, 106, 10, 60, 60, 32, 47, 76, 101, 110, 103,
      116, 104, 32, 49, 32, 62, 62, 10, 115, 116, 114, 101, 97, 109, 10, 65,
      10, 101, 110, 100, 115, 116, 114, 101, 97, 109, 10, 101, 110, 100,
      111, 98, 106, 10>>,
      \* 'stream A endstream\n'
      <<115, 116, 114, 101, 97, 109, 32, 65, 32, 101, 110, 100, 115, 116,
      114, 101, 97, 109, 10>>,
      \* 'endstream\n'
      <<101, 110, 100, 115, 116, 114, 101, 97, 109, 10>> }

RECURSIVE Bodies(_)
Bodies(n) ==
    IF n = 0 THEN {<<>>}
    ELSE Bodies(n - 1) \cup {b \o f : b \in Bodies(n - 1), f \in BodyFragments}

Xrefs ==
    { <<>>,
      \* 'xref\n0 2\n0000000000 65535 f\n0000000010 00000 n\n'
      <<120, 114, 101, 102, 10, 48, 32, 50, 10, 48, 48, 48, 48, 48, 48, 48,
      48, 48, 48, 32, 54, 53, 53, 51, 53, 32, 102, 10, 48, 48, 48, 48, 48,
      48, 48, 48, 49, 48, 32, 48, 48, 48, 48, 48, 32, 110, 10>>,
      \* the same with the keyword 'xref' deleted
      <<10, 48, 32, 50, 10, 48, 48, 48, 48, 48, 48, 48, 48, 48, 48, 32, 54,
      53, 53, 51, 53, 32, 102, 10, 48, 48, 48, 48, 48, 48, 48, 48, 49, 48,
      32, 48, 48, 48, 48, 48, 32, 110, 10>>,
      \* 'xref\n0 1000001\n0000000000 x 00000\n'
      <<120, 114, 101, 102, 10, 48, 32, 49, 48, 48, 48, 48, 48, 49, 10, 48,
      48, 48, 48, 48, 48, 48, 48, 48, 48, 32, 120, 32, 48, 48, 48, 48, 48,
      10>> }

Tails ==
    { <<>>,
      \* 'trailer\n<<>>\nstartxref\n66\n%%EOF'
      <<116, 114, 97, 105, 108, 101, 114, 10, 60, 60, 62, 62, 10, 115, 116,
      97, 114, 116, 120, 114, 101, 102, 10, 54, 54, 10, 37, 37, 69, 79, 70>>,
      \* 'trailer\n<< /Encrypt 5 0 R >>\nstartxref 66\n%%EOF'
      <<116, 114, 97, 105, 108, 101, 114, 10, 60, 60, 32, 47, 69, 110, 99,
      114, 121, 112, 116, 32, 53, 32, 48, 32, 82, 32, 62, 62, 10, 115, 116,
      97, 114, 116, 120, 114, 101, 102, 32, 54, 54, 10, 37, 37, 69, 79, 70>> }

Buffers ==
    {h \o b \o x \o t : h \in Heads, b \in Bodies(MaxBody), x \in Xrefs, t \in Tails}
(***************************************************************************)
(* Recovery engine (applyRecoveryStrategy and its six transforms).         *)
(***************************************************************************)
\* '%PDF-1.7\n%' four U+FFFD '\n', as the source file spells the template
PDF_HEADER_TEMPLATE ==
    <<37, 80, 68, 70, 45, 49, 46, 55, 10, 37>> \o <<65533, 65533, 65533,
      65533, 10>>

\* '0000000000 65535 f\n'
XREF_ENTRY_TEMPLATE == <<48, 48, 48, 48, 48, 48, 48, 48, 48, 48, 32, 54, 53,
  53, 51, 53, 32, 102, 10>>

\* new TextEncoder().encode(t), from code unit i on: UTF-8, a surrogate
\* pair as one 4-byte sequence, a lone surrogate as U+FFFD
RECURSIVE TextEncode(_, _)
TextEncode(t, i) ==
    IF i > Len(t) THEN <<>>
    ELSE LET c    == t[i]
             high == {j \in i..Len(t) : t[j] >= 128}
             j    == IF high = {} THEN Len(t) + 1 ELSE Min(high)
             pair == /\ c \in 55296..56319
                     /\ i < Len(t)
                     /\ t[i + 1] \in 56320..57343
             cp   == 65536 + (c - 55296) * 1024 + (t[i + 1] - 56320)
         IN  IF c < 128 THEN SubSeq(t, i, j - 1) \o TextEncode(t, j)
             ELSE IF c < 2048
                  THEN <<192 + (c \div 64), 128 + (c % 64)>> \o TextEncode(t,
                    i + 1)
             ELSE IF pair
                  THEN <<240 + (cp \div 262144), 128 + ((cp \div 4096) % 64),
                         128 + ((cp \div 64) % 64), 128 + (cp % 64)>>
                          \o TextEncode(t, i + 2)
             ELSE IF c \in 55296..57343
                  THEN <<239, 191, 189>> \o TextEncode(t, i + 1)
             ELSE <<224 + (c \div 4096), 128 + ((c \div 64) % 64),
               128 + (c % 64)>>
                      \o TextEncode(t, i + 1)

\* Number.prototype.toString of an integer n >= 0
RECURSIVE NumberToString(_)
NumberToString(n) ==
    IF n < 10 THEN <<48 + n>> ELSE NumberToString(n \div 10) \o <<48 + (n % 10)>>

\* String.prototype.padStart(n, ch)
PadStart(s, n, ch) ==
    IF Len(s) >= n THEN s ELSE [k \in 1..(n - Len(s)) |-> ch] \o s

\* Array.prototype.join('') of a list of strings
RECURSIVE Join(_)
Join(ss) == IF ss = <<>> THEN <<>> ELSE Head(ss) \o Join(Tail(ss))

\* the (1-based) position of the first occurrence of w in t at or after
\* from, 0 when there is none (String.prototype.indexOf, and the place
\* where a lazy [\s\S]*? stops)
IndexOf(t, w, from) ==
    LET hits == {i \in from..(Len(t) - Len(w) + 1) : IsAt(t, i, w)}
    IN  IF hits = {} THEN 0 ELSE Min(hits)

\* /(\d+)\s+\d+\s+obj[\s\S]*?endobj/ at i: the position after the match, or 0
ObjectPatternEnd(t, i) ==
    IF ~(i <= Len(t) /\ Digit(t[i])) THEN 0
    ELSE LET d1 == RunEnd(t, i, "\\d")
             s1 == RunEnd(t, d1, "\\s")
             d2 == RunEnd(t, s1, "\\d")
             s2 == RunEnd(t, d2, "\\s")
             e  == IndexOf(t, <<101, 110, 100, 111, 98, 106>>, s2 + 3)
         IN  IF s1 > d1 /\ d2 > s1 /\ s2 > d2 /\ IsAt(t, s2, <<111, 98,
           106>>) /\ e > 0
             THEN e + 6 ELSE 0

\* /\/Length\s+\d+[\s\S]*?stream\n([\s\S]*?)\nendstream/ at i: the positions
\* <<p, r>> of the 'stream\n' and the '\nendstream' it matches, or <<>>
LengthPatternAt(t, i) ==
    IF ~IsAt(t, i, <<47, 76, 101, 110, 103, 116, 104>>) THEN <<>>
    ELSE LET s == RunEnd(t, i + 7, "\\s")
             d == RunEnd(t, s, "\\d")
             p == IndexOf(t, S_stream \o <<10>>, d)
             r == IF p = 0 THEN 0 ELSE IndexOf(t, <<10>> \o S_endstream,
               p + 7)
         IN  IF s > i + 7 /\ d > s /\ p > 0 /\ r > 0 THEN <<p, r>> ELSE <<>>

\* /\/Subtype\s*\/Image[\s\S]*?stream[\s\S]*?endstream/ at i: the position
\* after the match, or 0
ImagePatternEnd(t, i) ==
    IF ~IsAt(t, i, <<47, 83, 117, 98, 116, 121, 112, 101>>) THEN 0
    ELSE LET s == RunEnd(t, i + 8, "\\s")
             p == IF IsAt(t, s, <<47, 73, 109, 97, 103,
               101>>) THEN IndexOf(t, S_stream, s + 6) ELSE 0
             r == IF p = 0 THEN 0 ELSE IndexOf(t, S_endstream, p + 6)
         IN  IF r > 0 THEN r + 9 ELSE 0

\* /\/Encrypt\s*<<[\s\S]*?>>/ at i: the position after the match, or 0
EncryptDictEnd(t, i) ==
    IF ~IsAt(t, i, S_Encrypt) THEN 0
    ELSE LET s == RunEnd(t, i + 8, "\\s")
             e == IF IsAt(t, s, <<60, 60>>) THEN IndexOf(t, <<62, 62>>,
               s + 2) ELSE 0
         IN  IF e > 0 THEN e + 2 ELSE 0

\* /\/Encrypt\s+\d+\s+\d+\s+R/ at i: the position after the match, or 0
EncryptRefEnd(t, i) ==
    IF ~IsAt(t, i, S_Encrypt) THEN 0
    ELSE LET s1 == RunEnd(t, i + 8, "\\s")
             d1 == RunEnd(t, s1, "\\d")
             s2 == RunEnd(t, d1, "\\s")
             d2 == RunEnd(t, s2, "\\d")
             s3 == RunEnd(t, d2, "\\s")
         IN  IF /\ s1 > i + 8 /\ d1 > s1 /\ s2 > d1 /\ d2 > s2 /\ s3 > d2
                /\ IsAt(t, s3, <<82>>)
             THEN s3 + 1 ELSE 0

\* [\x00-\x08\x0B\x0C\x0E-\x1F\x7F-\x9F]
ControlChar(c) == c \in (0..8) \cup {11, 12} \cup (14..31) \cup (127..159)

\* the position after the match of the pattern pat at position i of t, 0
\* when pat does not match there; a pattern is named by its source text
MatchEnd(pat, t, i) ==
    CASE pat = "stream(?!\\n)" ->
             IF IsAt(t, i, S_stream) /\ ~IsAt(t, i + 6,
               <<10>>) THEN i + 6 ELSE 0
      [] pat = "(?<!\\n)endstream" ->
             IF IsAt(t, i, S_endstream) /\ ~IsAt(t, i - 1,
               <<10>>) THEN i + 9 ELSE 0
      [] pat = "\\/Length\\s+\\d+[\\s\\S]*?stream\\n([\\s\\S]*?)\\nendstream" ->
             IF LengthPatternAt(t, i) = <<>> THEN 0
             ELSE LengthPatternAt(t, i)[2] + 10
      [] pat = "(\\d+)\\s+\\d+\\s+obj[\\s\\S]*?endobj" -> ObjectPatternEnd(t,
        i)
      [] pat = "[\\x00-\\x08\\x0B\\x0C\\x0E-\\x1F\\x7F-\\x9F]" ->
             IF i <= Len(t) /\ ControlChar(t[i]) THEN i + 1 ELSE 0
      [] pat = "<([^>]+)>" ->
             IF IsAt(t, i, <<60>>) /\ IndexOf(t, <<62>>, i + 1) > i + 1
             THEN IndexOf(t, <<62>>, i + 1) + 1 ELSE 0
      [] pat = "\\(\\\\[\\d]{3}\\)" ->
             IF /\ IsAt(t, i, <<40, 92>>)
                /\ RunEnd(t, i + 2, "\\d") >= i + 5
                /\ IsAt(t, i + 5, <<41>>)
             THEN i + 6 ELSE 0
      [] pat = "\\/Subtype\\s*\\/Image[\\s\\S]*?stream[\\s\\S]*?endstream" ->
             ImagePatternEnd(t, i)
      [] pat = "\\/Encrypt\\s*<<[\\s\\S]*?>>" -> EncryptDictEnd(t, i)
      [] pat = "\\/Encrypt\\s+\\d+\\s+\\d+\\s+R" -> EncryptRefEnd(t, i)

\* what String.prototype.replace puts in place of the match of pat that
\* spans the positions m .. e - 1 of t
Replacement(pat, t, m, e) ==
    CASE pat = "stream(?!\\n)" -> S_stream \o <<10>>
      [] pat = "(?<!\\n)endstream" -> <<10>> \o S_endstream
      [] pat = "\\/Length\\s+\\d+[\\s\\S]*?stream\\n([\\s\\S]*?)\\nendstream" ->
             \* (match, streamContent) => `/Length ${streamContent.length}...`
             LET streamContent == SubSeq(t, LengthPatternAt(t, m)[1] + 7,
               e - 11)
             IN  <<47, 76, 101, 110, 103, 116, 104,
               32>> \o NumberToString(Len(streamContent))
                   \o <<10>> \o S_stream \o <<10>> \o streamContent
                   \o <<10>> \o S_endstream
      [] pat = "[\\x00-\\x08\\x0B\\x0C\\x0E-\\x1F\\x7F-\\x9F]" -> <<>>
      [] pat = "<([^>]+)>" -> <<40>> \o SubSeq(t, m + 1, e - 2) \o <<41>>
      [] pat = "\\(\\\\[\\d]{3}\\)" -> <<32>>
      [] pat = "\\/Subtype\\s*\\/Image[\\s\\S]*?stream[\\s\\S]*?endstream" ->
             <<47, 83, 117, 98, 116, 121, 112, 101, 32, 47, 73, 109, 97, 103,
               101, 10, 47, 87, 105, 100, 116, 104, 32, 48, 10, 47, 72, 101,
               105, 103, 104, 116, 32, 48, 10, 47, 66, 105, 116, 115, 80,
               101, 114, 67, 111, 109, 112, 111, 110, 101, 110, 116, 32, 56,
               10>>
               \o <<47, 67, 111, 108, 111, 114, 83, 112, 97, 99, 101, 32, 47,
                 68, 101, 118, 105, 99, 101, 82, 71, 66, 10, 62, 62, 10, 115,
                 116, 114, 101, 97, 109, 10, 101, 110, 100, 115, 116, 114,
                 101, 97, 109>>
      [] pat = "\\/Encrypt\\s*<<[\\s\\S]*?>>" -> <<>>
      [] pat = "\\/Encrypt\\s+\\d+\\s+\\d+\\s+R" -> <<>>

\* the leftmost position at or after from where pat matches t, 0 if none
NextMatch(pat, t, from) ==
    LET starts == {i \in from..Len(t) : MatchEnd(pat, t, i) > 0}
    IN  IF starts = {} THEN 0 ELSE Min(starts)

\* String.prototype.replace with a g-flagged pattern, from position from on;
\* ReplaceFrom is given the start m of the next match (0 if none) and
\* ReplaceMatch its end e as well
RECURSIVE ReplaceAll(_, _, _)
RECURSIVE ReplaceFrom(_, _, _, _)
RECURSIVE ReplaceMatch(_, _, _, _, _)
ReplaceAll(pat, t, from) == ReplaceFrom(pat, t, from, NextMatch(pat, t, from))

ReplaceFrom(pat, t, from, m) ==
    IF m = 0 THEN SubSeq(t, from, Len(t))
    ELSE ReplaceMatch(pat, t, from, m, MatchEnd(pat, t, m))

ReplaceMatch(pat, t, from, m, e) ==
    SubSeq(t, from, m - 1) \o Replacement(pat, t, m, e) \o ReplaceAll(pat, t,
      e)

\* String.prototype.match with a g-flagged pattern: the matched substrings;
\* MatchFrom is given the start m of the next match (0 if none)
RECURSIVE MatchAll(_, _, _)
RECURSIVE MatchFrom(_, _, _)
MatchAll(pat, t, from) == MatchFrom(pat, t, NextMatch(pat, t, from))

MatchFrom(pat, t, m) ==
    IF m = 0 THEN <<>>
    ELSE <<SubSeq(t, m, MatchEnd(pat, t, m) - 1)>>
           \o MatchAll(pat, t, MatchEnd(pat, t, m))

\* a plausible slip: leave a buffer alone that already starts with '%PDF-'
recoverHeader_unlessPresent(data) ==
    [recoveredData |-> IF IsAt(data, 1, S_PDF) THEN data
                       ELSE TextEncode(PDF_HEADER_TEMPLATE, 1) \o data,
     success |-> TRUE]

recoverHeader(data) ==
    [recoveredData |-> TextEncode(PDF_HEADER_TEMPLATE, 1) \o data,
     success |-> TRUE]

\* the xref table text built for the decoded text: one entry per matched
\* object, at the offset text.indexOf finds its matched text at
XrefTableFor(text, objectMatches) ==
    LET xrefEntries ==
            <<XREF_ENTRY_TEMPLATE>> \o
            [k \in 1..Len(objectMatches) |->
                PadStart(NumberToString(IndexOf(text, objectMatches[k],
                  1) - 1), 10, 48)
                  \o <<32, 48, 48, 48, 48, 48, 32, 110, 10>>]
    IN  <<120, 114, 101, 102, 10, 48,
      32>> \o NumberToString(Len(xrefEntries)) \o <<10>> \o Join(xrefEntries)

\* a plausible slip: the failed rebuild hands back the half-built array
recoverXRefTable_halfBuilt(data) ==
    IF Len(data) < 6
    THEN [recoveredData |-> data \o [k \in 1..27 |-> 0], success |-> FALSE]
    ELSE [recoveredData |->
              SubSeq(data, 1, Len(data) - 6)
                \o TextEncode(XrefTableFor(TextDecode(data),
                       MatchAll("(\\d+)\\s+\\d+\\s+obj[\\s\\S]*?endobj",
                                TextDecode(data), 1)), 1)
                \o <<0, 0, 0, 0, 0, 0>>,
          success |-> TRUE]

\* recoveredData is data.length + xrefBuffer.length zero bytes; set(data)
\* fills the front, set(xrefBuffer, data.length - 6) overwrites from six
\* bytes before the end of the data on and throws a RangeError when that
\* offset is negative, which the catch turns into {data, false}
recoverXRefTable(data) ==
    IF Len(data) < 6
    THEN [recoveredData |-> data, success |-> FALSE]
    ELSE [recoveredData |->
              SubSeq(data, 1, Len(data) - 6)
                \o TextEncode(XrefTableFor(TextDecode(data),
                       MatchAll("(\\d+)\\s+\\d+\\s+obj[\\s\\S]*?endobj",
                                TextDecode(data), 1)), 1)
                \o <<0, 0, 0, 0, 0, 0>>,
          success |-> TRUE]

fixStreamDelimiters(data) ==
    [recoveredData |->
         TextEncode(
             ReplaceAll("\\/Length\\s+\\d+[\\s\\S]*?stream\\n([\\s\\S]*?)\\nendstream",
                 ReplaceAll("(?<!\\n)endstream",
                     ReplaceAll("stream(?!\\n)", TextDecode(data), 1), 1),
                       1), 1),
     success |-> TRUE]

recoverTextContent(data) ==
    [recoveredData |->
         TextEncode(
             ReplaceAll("\\(\\\\[\\d]{3}\\)",
                 ReplaceAll("<([^>]+)>",
                     ReplaceAll("[\\x00-\\x08\\x0B\\x0C\\x0E-\\x1F\\x7F-\\x9F]",
                                TextDecode(data), 1), 1), 1), 1),
     success |-> TRUE]

recoverImageData(data) ==
    [recoveredData |->
         TextEncode(
             ReplaceAll("\\/Subtype\\s*\\/Image[\\s\\S]*?stream[\\s\\S]*?endstream",
                        TextDecode(data), 1), 1),
     success |-> TRUE]

removeEncryption(data) ==
    [recoveredData |->
         TextEncode(
             ReplaceAll("\\/Encrypt\\s+\\d+\\s+\\d+\\s+R",
                 ReplaceAll("\\/Encrypt\\s*<<[\\s\\S]*?>>", TextDecode(data),
                   1),
                 1), 1),
     success |-> TRUE]

\* the categories applyRecoveryStrategy has a case for
RecoveryCategories ==
    {"MISSING_HEADER", "MISSING_XREF", "MISMATCHED_STREAM", "CORRUPTED_TEXT",
     "CORRUPTED_IMAGE", "BROKEN_ENCRYPTION"}

\* the transform and the recoveryMethod of each case of the switch
RecoveryCase(errorType, data) ==
    CASE errorType = "MISSING_HEADER" ->
             [r |-> recoverHeader(data), method |-> "Header reconstruction"]
      [] errorType = "MISSING_XREF" ->
             [r |-> recoverXRefTable(data),
              method |-> "Cross-reference table rebuild"]
      [] errorType = "MISMATCHED_STREAM" ->
             [r |-> fixStreamDelimiters(data),
              method |-> "Stream delimiter correction"]
      [] errorType = "CORRUPTED_TEXT" ->
             [r |-> recoverTextContent(data),
               method |-> "Text content recovery"]
      [] errorType = "CORRUPTED_IMAGE" ->
             [r |-> recoverImageData(data), method |-> "Image data recovery"]
      [] errorType = "BROKEN_ENCRYPTION" ->
             [r |-> removeEncryption(data), method |-> "Encryption removal"]

\* a plausible slip: the default case answers with a fresh, empty array
NoStrategy_emptyData(data) ==
    [success |-> FALSE,
     message |-> "No recovery strategy available for this error type",
     recoveredData |-> <<>>,
     appliedStrategy |-> "none"]

\* the default case of the switch
NoStrategy(data) ==
    [success |-> FALSE,
     message |-> "No recovery strategy available for this error type",
     recoveredData |-> data,
     appliedStrategy |-> "none"]

\* the result object built after the switch
RecoveryResult(c) ==
    [success |-> c.r.success,
     message |-> IF c.r.success THEN "Recovery completed successfully"
                 ELSE "Recovery partially completed with issues",
     recoveredData |-> c.r.recoveredData,
     appliedStrategy |-> c.method]

\* No transform lets an exception escape (each has its own catch, decoding
\* and encoding do not throw), so the catch of applyRecoveryStrategy, which
\* answers 'failed' with a copy of the input, is never entered.
applyRecoveryStrategy(buffer, errorType) ==
    IF errorType \in RecoveryCategories
    THEN RecoveryResult(RecoveryCase(errorType, buffer))
    ELSE NoStrategy(buffer)

(***************************************************************************)
(* Input buffers of the recovery engine: an optional header (a plain one  *)
(* or the one recoverHeader writes), up to MaxBody fragments and an        *)
(* optional tail.                                                          *)
(***************************************************************************)
RecoveryFragments ==
    { \* three bytes
      <<97, 98, 99>>,
      <<49, 32, 48, 32, 111, 98, 106, 10, 60, 60, 62, 62, 10, 101, 110, 100,
        111, 98, 106, 10>>,
      \* the same object twice
      <<49, 32, 48, 32, 111, 98, 106, 10, 60, 60, 62, 62, 10, 101, 110, 100,
        111, 98, 106, 10, 49, 32, 48, 32, 111, 98, 106, 10, 60, 60, 62, 62,
        10, 101, 110, 100, 111, 98, 106, 10>>,
      \* a stream with correct delimiters and length, a newline after it
      <<50, 32, 48, 32, 111, 98, 106, 10, 60, 60, 32, 47, 76, 101, 110, 103,
        116, 104, 32, 49, 32, 62, 62, 10, 115, 116, 114, 101, 97, 109, 10,
        65, 10, 101, 110, 100, 115, 116, 114, 101, 97, 109, 10, 101, 110,
        100, 111, 98, 106, 10>>,
      \* a stream with correct delimiters and length, a blank after it
      <<51, 32, 48, 32, 111, 98, 106, 10, 60, 60, 32, 47, 76, 101, 110, 103,
        116, 104, 32, 49, 32, 62, 62, 10, 115, 116, 114, 101, 97, 109, 10,
        65, 10, 101, 110, 100, 115, 116, 114, 101, 97, 109, 32, 101, 110,
        100, 111, 98, 106, 10>>,
      \* a stream with correct delimiters and length whose body is the two
      \* bytes FF D8
      <<52, 32, 48, 32, 111, 98, 106, 10, 60, 60, 32, 47, 76, 101, 110, 103,
        116, 104, 32, 50, 32, 62, 62, 10, 115, 116, 114, 101, 97, 109, 10,
        255, 216, 10, 101, 110, 100, 115, 116, 114, 101, 97, 109, 10, 101,
        110, 100, 111, 98, 106, 10>>,
      \* a stream with correct delimiters and length whose body is the two
      \* bytes of U+00E9
      <<53, 32, 48, 32, 111, 98, 106, 10, 60, 60, 32, 47, 76, 101, 110, 103,
        116, 104, 32, 50, 32, 62, 62, 10, 115, 116, 114, 101, 97, 109, 10,
        195, 169, 10, 101, 110, 100, 115, 116, 114, 101, 97, 109, 10, 101,
        110, 100, 111, 98, 106, 10>>,
      \* an image stream with blanks for delimiters and a wrong length
      <<54, 32, 48, 32, 111, 98, 106, 10, 60, 60, 32, 47, 83, 117, 98, 116,
        121, 112, 101, 32, 47, 73, 109, 97, 103, 101, 32, 47, 76, 101, 110,
        103, 116, 104, 32, 57, 32, 62, 62, 10, 115, 116, 114, 101, 97, 109,
        32, 65, 66, 32, 101, 110, 100, 115, 116, 114, 101, 97, 109, 10, 101,
        110, 100, 111, 98, 106, 10>>,
      \* a hexadecimal string, a bracketed octal escape, a control character
      <<60, 52, 56, 62, 32, 40, 92, 49, 48, 49, 41, 32, 1, 10>>,
      \* an inline encryption dictionary
      <<47, 69, 110, 99, 114, 121, 112, 116, 32, 60, 60, 32, 47, 86, 32, 49,
        32, 62, 62, 10>> }

RECURSIVE RecoveryBodies(_)
RecoveryBodies(n) ==
    IF n = 0 THEN {<<>>}
    ELSE RecoveryBodies(n - 1)
           \cup {b \o f : b \in RecoveryBodies(n - 1),
             f \in RecoveryFragments}

RecoveryBuffers ==
    {h \o b \o t : h \in {<<>>, <<37, 80, 68, 70, 45, 49, 46, 55, 10>>,
                            TextEncode(PDF_HEADER_TEMPLATE, 1)},
                   b \in RecoveryBodies(MaxBody), t \in Tails}

\* the error types applyRecoveryStrategy is called with: its six categories
\* and two other members of the error-message taxonomy
ErrorTypes == RecoveryCategories \cup {"INVALID_VERSION", "CORRUPTED_FONT"}

(***************************************************************************)
(* State.                                                                  *)
(***************************************************************************)
VARIABLES
    buf,        \* the bytes of the file under inspection
    called,     \* the entry points called on buf so far
    rres,       \* the result of repairPDF(buf)
    vres,       \* the result of the latest validatePDFStructure(buf)
    firstV,     \* the result of the first validatePDFStructure(buf)
    vcalls,     \* how often validatePDFStructure was called
    lastIndex,  \* PDF_HEADER_PATTERN.lastIndex
    pres,       \* the result of validatePDF on the repaired bytes
    cres,       \* the result of checkPDFCorruption(buf)
    recType,    \* the error type applyRecoveryStrategy was called with
    recres,     \* the result of applyRecoveryStrategy(buf, recType)
    now,            \* Date.now(), in milliseconds
    uploadTracker,  \* the module-level Map of checkRateLimit
    upClient,       \* the client of the latest validateFileUpload call
    upFile,         \* the file data of the latest validateFileUpload call
    upres,          \* the result of the latest validateFileUpload call
    windowStart,    \* per client: when its current 60-second window began
    windowUploads,  \* per client: its uploads in that window so far
    bp,             \* the BatchProcessor
    started,        \* startProcessing has been called
    batchCompleted, \* the latest step emitted batchCompleted
    pf,             \* the call of processFiles: its loop and its results
    rm,             \* the ResourceManager: its pool, waiting queue and stats
    acquires,       \* the acquireResource calls made so far and their state
    granted,        \* the calls that completed after waiting, in that order
    releases,       \* the acquireResource calls whose caller has released
    alerts,         \* the alert list of the PerformanceMonitor
    lastClear       \* the list and cutoff of a clearOldAlerts just done

recoveryVars == <<recType, recres>>

uploadVars ==
    <<uploadTracker, upClient, upFile, upres, windowStart, windowUploads>>

engineVars == <<buf, called, rres, vres, firstV, vcalls, lastIndex, pres,
  cres>>

batchVars == <<bp, started, batchCompleted, pf>>

poolVars == <<rm, acquires, granted, releases>>

alertVars == <<alerts, lastClear>>

vars == <<engineVars, recoveryVars, now, uploadVars, batchVars, poolVars,
          alertVars>>

\* how often the validator is called on one buffer, at most
MaxValidations == 2

NoRepair == [isValid |-> FALSE, repairedPDF |-> <<>>, error |-> undefined,
             applied |-> <<>>]

NoStructure ==
    [isValid |-> FALSE, errors |-> <<>>, warnings |-> <<>>,
     details |-> [headerValid |-> FALSE, xrefValid |-> FALSE,
       streamValid |-> FALSE]]

NoValidation == [isValid |-> FALSE, errors |-> <<>>]

NoCorruption ==
    [isCorrupted |-> FALSE,
     corruptions |-> [header |-> <<>>, xref |-> <<>>, streams |-> <<>>],
     severity |-> "LOW", repairStrategy |-> <<>>]

NoRecovery ==
    [success |-> FALSE, message |-> undefined, recoveredData |-> <<>>,
     appliedStrategy |-> undefined]

\* nothing inspected yet
NoInspection ==
    /\ called = {}
    /\ rres = NoRepair
    /\ vres = NoStructure
    /\ firstV = NoStructure
    /\ vcalls = 0
    /\ lastIndex = 0
    /\ pres = NoValidation
    /\ cres = NoCorruption

\* applyRecoveryStrategy not called yet
NoRecoveryCall ==
    /\ recType = undefined
    /\ recres = NoRecovery

\* the clients that upload
Clients == {"rate-limit-test", "other-client"}

NoSecurityResult ==
    [isValid |-> FALSE, error |-> undefined, securityLevel |-> undefined]

\* no upload yet: uploadTracker = new Map()
NoUpload ==
    /\ uploadTracker = [c \in Clients |-> <<>>]
    /\ upClient = undefined
    /\ upFile = <<>>
    /\ upres = NoSecurityResult
    /\ windowStart = [c \in Clients |-> 0]
    /\ windowUploads = [c \in Clients |-> 0]

\* new BatchProcessor(reportsDir)
NewBatchProcessor ==
    [jobs |-> <<>>, queue |-> <<>>, activeJobs |-> {},
     stats |-> [total |-> 0, completed |-> 0, failed |-> 0, inProgress |-> 0,
                queued |-> 0],
     processing |-> {}, retryDelay |-> <<>>, failing |-> {}, reporting |-> 0]

\* processFiles(jobs) when called with n files: the file the loop is at,
\* the job it polls (0: none), how often it has polled that job (counted up
\* to MaxPolls), the status of each result pushed, whether it has returned
ProcessFilesCall(n) ==
    [files |-> n, file |-> 1, jobId |-> 0, polls |-> 0, results |-> <<>>,
     returned |-> FALSE]

\* a new processor, nothing called on it yet
NoBatch ==
    /\ bp = NewBatchProcessor
    /\ started = FALSE
    /\ batchCompleted = FALSE
    /\ pf = ProcessFilesCall(0)

\* the resource ids asked for
ResourceIds == {"test-resource", "resource-1", "resource-2", "resource-3"}

\* new ResourceManager(cacheDir, cacheOptions, poolConfig); timers holds the
\* calls whose resolver was handed to setTimeout, in that order
NewResourceManager ==
    [resourcePool |-> {},
     waitingQueue |-> [r \in ResourceIds |-> <<>>],
     stats |-> [activeResources |-> 0, waitingRequests |-> 0],
     timers |-> <<>>]

\* a new resource manager, nothing called on it yet
NoPool ==
    /\ rm = NewResourceManager
    /\ acquires = <<>>
    /\ granted = <<>>
    /\ releases = {}

\* a new PerformanceMonitor: private readonly alerts: Alert[] = []
NoAlerts ==
    /\ alerts = <<>>
    /\ lastClear = <<>>

Init ==
    /\ buf \in Buffers
    /\ NoInspection
    /\ NoRecoveryCall
    /\ now = 0
    /\ NoUpload
    /\ NoBatch
    /\ NoPool
    /\ NoAlerts

\* const result = await repairPDF(buf)
DoRepairPDF ==
    /\ "repairPDF" \notin called
    /\ rres' = repairPDF(buf)
    /\ called' = called \cup {"repairPDF"}
    /\ UNCHANGED <<buf, vres, firstV, vcalls, lastIndex, pres, cres>>
    /\ UNCHANGED <<recoveryVars, now, uploadVars, batchVars, poolVars,
      alertVars>>

\* const result = validatePDFStructure(buf)
DoValidatePDFStructure ==
    /\ vcalls < MaxValidations
    /\ \E r \in {validatePDFStructure(buf, lastIndex)} :
           /\ vres' = [isValid |-> r.isValid, errors |-> r.errors,
                       warnings |-> r.warnings, details |-> r.details]
           /\ firstV' = IF vcalls = 0 THEN vres' ELSE firstV
           /\ lastIndex' = r.lastIndex
    /\ vcalls' = vcalls + 1
    /\ UNCHANGED <<buf, called, rres, pres, cres>>
    /\ UNCHANGED <<recoveryVars, now, uploadVars, batchVars, poolVars,
      alertVars>>

\* const repairedValidation = await validatePDF(repairResult.repairedPDF)
DoValidatePDF ==
    /\ "repairPDF" \in called
    /\ "validatePDF" \notin called
    /\ rres.repairedPDF # <<>>
    /\ pres' = validatePDF(rres.repairedPDF[1])
    /\ called' = called \cup {"validatePDF"}
    /\ UNCHANGED <<buf, rres, vres, firstV, vcalls, lastIndex, cres>>
    /\ UNCHANGED <<recoveryVars, now, uploadVars, batchVars, poolVars,
      alertVars>>

\* const result = checkPDFCorruption(buf)
DoCheckPDFCorruption ==
    /\ "checkPDFCorruption" \notin called
    /\ cres' = checkPDFCorruption(buf)
    /\ called' = called \cup {"checkPDFCorruption"}
    /\ UNCHANGED <<buf, rres, vres, firstV, vcalls, lastIndex, pres>>
    /\ UNCHANGED <<recoveryVars, now, uploadVars, batchVars, poolVars,
      alertVars>>

Next ==
    \/ DoRepairPDF
    \/ DoValidatePDFStructure
    \/ DoValidatePDF
    \/ DoCheckPDFCorruption

Spec == Init /\ [][Next]_vars

(***************************************************************************)
(* The recovery engine called on one buffer.                               *)
(***************************************************************************)
InitRecovery ==
    /\ buf \in RecoveryBuffers
    /\ NoInspection
    /\ NoRecoveryCall
    /\ now = 0
    /\ NoUpload
    /\ NoBatch
    /\ NoPool
    /\ NoAlerts

\* const result = await applyRecoveryStrategy(buf, errorType)
DoApplyRecoveryStrategy ==
    /\ recType = undefined
    /\ \E errorType \in ErrorTypes :
           /\ recType' = errorType
           /\ recres' = applyRecoveryStrategy(buf, errorType)
    /\ UNCHANGED <<buf, called, rres, vres, firstV, vcalls, lastIndex, pres,
      cres>>
    /\ UNCHANGED <<now, uploadVars, batchVars, poolVars, alertVars>>

NextRecovery == DoApplyRecoveryStrategy

SpecRecovery == InitRecovery /\ [][NextRecovery]_vars

(***************************************************************************)
(* Upload validation with its per-client rate limit (validateFileUpload,   *)
(* checkRateLimit).  uploadTracker holds for each client no entry (<<>>)   *)
(* or one entry <<[count, timestamp]>>.                                    *)
(***************************************************************************)
MAX_FILE_SIZE == 104857600
RATE_LIMIT_WINDOW == 60000
MAX_REQUESTS_PER_WINDOW == 10

\* the clock stops here
MaxClock == 60000
\* how many uploads one client makes in one window, at most
MaxUploads == 11

\* checkRateLimit(clientId) at time t: what it returns (allowed) and the
\* uploadTracker it leaves
checkRateLimit(tracker, clientId, t) ==
    LET clientData == tracker[clientId]
    IN  IF clientData = <<>>
        THEN [allowed |-> TRUE,
              tracker |-> [tracker EXCEPT ![clientId] =
                               <<[count |-> 1, timestamp |-> t]>>]]
        ELSE IF t - clientData[1].timestamp > RATE_LIMIT_WINDOW
        THEN [allowed |-> TRUE,
              tracker |-> [tracker EXCEPT ![clientId] =
                               <<[count |-> 1, timestamp |-> t]>>]]
        ELSE IF clientData[1].count >= MAX_REQUESTS_PER_WINDOW
        THEN [allowed |-> FALSE, tracker |-> tracker]
        ELSE [allowed |-> TRUE,
              tracker |-> [tracker EXCEPT ![clientId] =
                               <<[count |-> clientData[1].count + 1,
                                  timestamp |-> clientData[1].timestamp]>>]]

\* the file passes the basic validation and reaches the rate limiting check
ReachesRateCheck(fileData) ==
    Len(fileData) # 0 /\ Len(fileData) <= MAX_FILE_SIZE

\* validateFileUpload(fileData, clientId) at time t: its result and the
\* uploadTracker it leaves.  The value checkRateLimit returns is read as
\* isRateLimited.
validateFileUpload(tracker, fileData, clientId, t) ==
    IF Len(fileData) = 0
    THEN [result |-> [isValid |-> FALSE,
      error |-> "Invalid file data provided",
                      securityLevel |-> "HIGH"],
          tracker |-> tracker]
    ELSE IF Len(fileData) > MAX_FILE_SIZE
    THEN [result |-> [isValid |-> FALSE,
                      error |-> "File size exceeds maximum limit",
                      securityLevel |-> "HIGH"],
          tracker |-> tracker]
    ELSE [result |->
              IF checkRateLimit(tracker, clientId, t).allowed
              THEN [isValid |-> FALSE,
                error |-> "Rate limit exceeded for client",
                    securityLevel |-> "HIGH"]
              ELSE IF TextDecode(Slice(fileData, 0, 5)) # S_PDF
              THEN [isValid |-> FALSE, error |-> "Invalid PDF header",
                    securityLevel |-> "HIGH"]
              ELSE [isValid |-> TRUE, error |-> undefined,
                    securityLevel |-> "LOW"],
          tracker |-> checkRateLimit(tracker, clientId, t).tracker]

\* the files uploaded: none, a well-formed one, one without a PDF header
UploadFiles == {<<>>, <<37, 80, 68, 70, 45, 49, 46, 55, 10, 37, 37, 69, 79,
  70>>, <<71, 73, 70, 56, 57, 97>>}

InitUpload ==
    /\ buf = <<>>
    /\ NoInspection
    /\ NoRecoveryCall
    /\ now = 0
    /\ NoUpload
    /\ NoBatch
    /\ NoPool
    /\ NoAlerts

\* const result = await validateFileUpload(fileData, clientId); the window
\* of a client begins with its first upload that reaches the rate check, and
\* anew with its first such upload 60 seconds or more after that
DoValidateFileUpload ==
    \E clientId \in Clients, fileData \in UploadFiles :
        /\ windowUploads[clientId] < MaxUploads
        /\ upClient' = clientId
        /\ upFile' = fileData
        /\ upres' = validateFileUpload(uploadTracker, fileData, clientId,
          now).result
        /\ uploadTracker' =
               validateFileUpload(uploadTracker, fileData, clientId,
                 now).tracker
        /\ IF ~ReachesRateCheck(fileData)
           THEN UNCHANGED <<windowStart, windowUploads>>
           ELSE IF \/ windowUploads[clientId] = 0
                   \/ now - windowStart[clientId] >= RATE_LIMIT_WINDOW
           THEN /\ windowStart' = [windowStart EXCEPT ![clientId] = now]
                /\ windowUploads' = [windowUploads EXCEPT ![clientId] = 1]
           ELSE /\ windowUploads' = [windowUploads EXCEPT ![clientId] = @ + 1]
                /\ UNCHANGED windowStart
        /\ UNCHANGED <<buf, called, rres, vres, firstV, vcalls, lastIndex,
          pres,
                       cres, recoveryVars, now, batchVars, poolVars,
                         alertVars>>

\* jest.advanceTimersByTime(ms)
AdvanceTimers ==
    \E ms \in {RATE_LIMIT_WINDOW \div 2, RATE_LIMIT_WINDOW} :
        /\ now + ms <= MaxClock
        /\ now' = now + ms
        /\ UNCHANGED <<buf, called, rres, vres, firstV, vcalls, lastIndex,
          pres,
                       cres, recoveryVars, uploadVars, batchVars, poolVars,
                         alertVars>>

NextUpload ==
    \/ DoValidateFileUpload
    \/ AdvanceTimers

SpecUpload == InitUpload /\ [][NextUpload]_vars


(***************************************************************************)
(* BatchProcessor.  bp is the processor object: its queue (job ids), its   *)
(* activeJobs map (its key set), its stats, the job objects (jobs[id]) and *)
(* the suspended calls of processNextJob: those in the pipeline of a job   *)
(* (processing), those in handleJobError's retry delay (retryDelay, in the *)
(* order their timers were set), those whose job failed for good and which *)
(* have not run their finally block yet (failing), and those that await    *)
(* the final report (reporting).  A job object also records how often the *)
(* pipeline was started on it (attempts).                                  *)
(***************************************************************************)
MAX_CONCURRENT_JOBS == 3
MAX_RETRIES == 3

\* how many jobs are added, at most
MaxJobs == 2

\* the steps of the pipeline that throw, with the progress the job has
\* reached by then and the message of the error: validateFileUpload
FailurePoints == {[progress |-> 10, error |-> "Invalid PDF header"]}

\* getJobStatus(jobId): the job object, or undefined
getJobStatus(p, jobId) ==
    IF jobId \in p.activeJobs \/ \E k \in 1..Len(p.queue) : p.queue[k] = jobId
    THEN p.jobs[jobId]
    ELSE undefined

\* processNextJob() up to its first await
processNextJob(p) ==
    IF Len(p.queue) = 0 \/ Cardinality(p.activeJobs) >= MAX_CONCURRENT_JOBS
    THEN p
    ELSE [p EXCEPT !.queue = Tail(p.queue),
                   !.stats.queued = @ - 1,
                   !.stats.inProgress = @ + 1,
                   !.activeJobs = @ \cup {Head(p.queue)},
                   !.jobs[Head(p.queue)].status = "processing",
                   !.jobs[Head(p.queue)].attempts = @ + 1,
                   !.processing = @ \cup {Head(p.queue)}]

\* addJob(filePath) up to its emit of jobAdded
Enqueue(p) ==
    [p EXCEPT !.jobs = Append(@, [status |-> "queued", progress |-> 0,
                                  retries |-> 0, error |-> undefined,
                                  attempts |-> 0]),
              !.queue = Append(@, Len(p.jobs) + 1),
              !.stats.total = @ + 1,
              !.stats.queued = @ + 1]

\* addJob(filePath)
addJob(p) ==
    IF Cardinality(p.activeJobs) < MAX_CONCURRENT_JOBS
    THEN processNextJob(Enqueue(p))
    ELSE Enqueue(p)

\* startProcessing(): n calls of processNextJob, each up to its first await
RECURSIVE StartJobs(_, _)
StartJobs(p, n) == IF n = 0 THEN p ELSE StartJobs(processNextJob(p), n - 1)

startProcessing(p) ==
    StartJobs(p, IF Len(p.queue) < MAX_CONCURRENT_JOBS THEN Len(p.queue)
                 ELSE MAX_CONCURRENT_JOBS)

\* updateProgress(jobId, progress)
updateProgress(p, jobId, progress) ==
    IF jobId \in p.activeJobs THEN [p EXCEPT !.jobs[jobId].progress = progress]
    ELSE p

\* the finally block of processNextJob after its two bookkeeping lines
ProcessNextOrReport(p) ==
    IF Len(p.queue) > 0 THEN processNextJob(p)
    ELSE IF p.stats.inProgress = 0 THEN [p EXCEPT !.reporting = @ + 1]
    ELSE p

\* the finally block of processNextJob for the job jobId
FinallyBlock(p, jobId) ==
    ProcessNextOrReport([p EXCEPT !.stats.inProgress = @ - 1,
                                  !.activeJobs = @ \ {jobId}])

\* the end of the try block: the job is completed, then the finally block
CompleteJob(p, jobId) ==
    FinallyBlock([updateProgress(p, jobId, 100) EXCEPT
                      !.jobs[jobId].status = "completed",
                      !.stats.completed = @ + 1,
                      !.processing = @ \ {jobId}],
                 jobId)

\* a plausible slip: retries compared with <= instead of <
handleJobError_oneMoreRetry(p, jobId, errorMessage) ==
    IF p.jobs[jobId].retries <= MAX_RETRIES
    THEN [p EXCEPT !.jobs[jobId].retries = @ + 1,
                   !.jobs[jobId].status = "queued",
                   !.queue = Append(@, jobId),
                   !.stats.queued = @ + 1,
                   !.processing = @ \ {jobId},
                   !.retryDelay = Append(@, jobId)]
    ELSE [p EXCEPT !.jobs[jobId].status = "failed",
                   !.jobs[jobId].error = errorMessage,
                   !.stats.failed = @ + 1,
                   !.processing = @ \ {jobId},
                   !.failing = @ \cup {jobId}]

\* handleJobError(job, error) up to its await of the retry delay, or to its
\* end when the job has no retry left
handleJobError(p, jobId, errorMessage) ==
    IF p.jobs[jobId].retries < MAX_RETRIES
    THEN [p EXCEPT !.jobs[jobId].retries = @ + 1,
                   !.jobs[jobId].status = "queued",
                   !.queue = Append(@, jobId),
                   !.stats.queued = @ + 1,
                   !.processing = @ \ {jobId},
                   !.retryDelay = Append(@, jobId)]
    ELSE [p EXCEPT !.jobs[jobId].status = "failed",
                   !.jobs[jobId].error = errorMessage,
                   !.stats.failed = @ + 1,
                   !.processing = @ \ {jobId},
                   !.failing = @ \cup {jobId}]

InitBatch ==
    /\ buf = <<>>
    /\ NoInspection
    /\ NoRecoveryCall
    /\ now = 0
    /\ NoUpload
    /\ NoBatch
    /\ NoPool
    /\ NoAlerts

\* const jobId = processor.addJob(filePath)
DoAddJob ==
    /\ Len(bp.jobs) < MaxJobs
    /\ bp' = addJob(bp)
    /\ batchCompleted' = FALSE
    /\ UNCHANGED <<engineVars, recoveryVars, now, uploadVars, started, pf,
      poolVars,
                   alertVars>>

\* processor.startProcessing()
DoStartProcessing ==
    /\ bp' = startProcessing(bp)
    /\ started' = TRUE
    /\ batchCompleted' = FALSE
    /\ UNCHANGED <<engineVars, recoveryVars, now, uploadVars, pf, poolVars,
                   alertVars>>

\* the pipeline of a job runs to its end: the job is completed
PipelineSucceeds ==
    \E jobId \in bp.processing :
        /\ bp' = CompleteJob(bp, jobId)
        /\ batchCompleted' = FALSE
        /\ UNCHANGED <<engineVars, recoveryVars, now, uploadVars, started,
          pf, poolVars,
                   alertVars>>

\* a step of the pipeline of a job throws: handleJobError
PipelineFails ==
    \E jobId \in bp.processing, f \in FailurePoints :
        /\ bp' = handleJobError(updateProgress(bp, jobId, f.progress), jobId,
                                f.error)
        /\ batchCompleted' = FALSE
        /\ UNCHANGED <<engineVars, recoveryVars, now, uploadVars, started,
          pf, poolVars,
                   alertVars>>

\* the oldest retry delay is over: handleJobError returns, finally block
RetryDelayEnds ==
    /\ bp.retryDelay # <<>>
    /\ bp' = FinallyBlock([bp EXCEPT !.retryDelay = Tail(@)],
      Head(bp.retryDelay))
    /\ batchCompleted' = FALSE
    /\ UNCHANGED <<engineVars, recoveryVars, now, uploadVars, started, pf,
      poolVars,
                   alertVars>>

\* handleJobError has returned for a job that failed for good: finally block
FailureReturns ==
    \E jobId \in bp.failing :
        /\ bp' = FinallyBlock([bp EXCEPT !.failing = @ \ {jobId}], jobId)
        /\ batchCompleted' = FALSE
        /\ UNCHANGED <<engineVars, recoveryVars, now, uploadVars, started,
          pf, poolVars,
                   alertVars>>

\* generateReport has saved the report and batchCompleted is emitted, or
\* saving the report has failed and processNextJob rejects
ReportGenerated ==
    /\ bp.reporting > 0
    /\ bp' = [bp EXCEPT !.reporting = @ - 1]
    /\ batchCompleted' \in BOOLEAN
    /\ UNCHANGED <<engineVars, recoveryVars, now, uploadVars, started, pf,
      poolVars,
                   alertVars>>

NextBatch ==
    \/ DoAddJob
    \/ DoStartProcessing
    \/ PipelineSucceeds
    \/ PipelineFails
    \/ RetryDelayEnds
    \/ FailureReturns
    \/ ReportGenerated

SpecBatch == InitBatch /\ [][NextBatch]_vars


(***************************************************************************)
(* The resource pool of the ResourceManager (acquireResource,              *)
(* releaseResource).  A call of acquireResource is named by its number in  *)
(* acquires; a waiting call's resolver is that number.                     *)
(***************************************************************************)
\* poolConfig.maxConcurrent
MaxConcurrent == 3

\* how many acquireResource and releaseResource calls are made, at most
MaxAcquires == 5
MaxReleases == 2

\* acquireResource(resourceId), called as call number req
acquireResource(m, resourceId, req) ==
    IF Cardinality(m.resourcePool) >= MaxConcurrent
    THEN [m EXCEPT !.waitingQueue[resourceId] = Append(@, req),
                   !.stats.waitingRequests = @ + 1]
    ELSE [m EXCEPT !.resourcePool = @ \cup {resourceId},
                   !.stats.activeResources = @ + 1]

\* releaseResource(resourceId)
releaseResource(m, resourceId) ==
    IF Len(m.waitingQueue[resourceId]) > 0
    THEN [m EXCEPT !.resourcePool = @ \ {resourceId},
                   !.stats.activeResources = @ - 1,
                   !.waitingQueue[resourceId] = Tail(@),
                   !.stats.waitingRequests = @ - 1,
                   !.timers = Append(@, Head(m.waitingQueue[resourceId]))]
    ELSE [m EXCEPT !.resourcePool = @ \ {resourceId},
                   !.stats.activeResources = @ - 1]

\* the calls of acquireResource that have completed with true
Acquired == {k \in 1..Len(acquires) : acquires[k].state = "acquired"}

\* the completed calls whose caller has not called releaseResource yet
Holders == Acquired \ releases

InitPool ==
    /\ buf = <<>>
    /\ NoInspection
    /\ NoRecoveryCall
    /\ now = 0
    /\ NoUpload
    /\ NoBatch
    /\ NoPool
    /\ NoAlerts

\* resourceManager.acquireResource(resourceId)
DoAcquireResource ==
    \E resourceId \in ResourceIds :
        /\ Len(acquires) < MaxAcquires
        /\ rm' = acquireResource(rm, resourceId, Len(acquires) + 1)
        /\ acquires' =
               Append(acquires,
                      [id |-> resourceId,
                       state |-> IF Cardinality(rm.resourcePool) >= MaxConcurrent
                                 THEN "waiting" ELSE "acquired"])
        /\ UNCHANGED <<granted, releases>>
        /\ UNCHANGED <<engineVars, recoveryVars, now, uploadVars, batchVars,
                       alertVars>>

\* resourceManager.releaseResource(resourceId), by a caller that holds it
DoReleaseResource ==
    \E k \in Holders :
        /\ Cardinality(releases) < MaxReleases
        /\ rm' = releaseResource(rm, acquires[k].id)
        /\ releases' = releases \cup {k}
        /\ UNCHANGED <<acquires, granted>>
        /\ UNCHANGED <<engineVars, recoveryVars, now, uploadVars, batchVars,
                       alertVars>>

\* the oldest timer set by releaseResource fires: resolve(true)
ReleaseTimerFires ==
    /\ rm.timers # <<>>
    /\ rm' = [rm EXCEPT !.timers = Tail(@)]
    /\ acquires' = [acquires EXCEPT ![Head(rm.timers)].state = "acquired"]
    /\ granted' = Append(granted, Head(rm.timers))
    /\ UNCHANGED releases
    /\ UNCHANGED <<engineVars, recoveryVars, now, uploadVars, batchVars,
                   alertVars>>

NextPool ==
    \/ DoAcquireResource
    \/ DoReleaseResource
    \/ ReleaseTimerFires

SpecPool == InitPool /\ [][NextPool]_vars


(***************************************************************************)
(* The alert list of the PerformanceMonitor (clearOldAlerts).              *)
(***************************************************************************)
\* how many alerts are raised, at most
MaxAlerts == 3
\* the clock of the monitor stops here: 48 hours
MaxAlertClock == 172800000

\* this.alerts.findIndex(alert => alert.timestamp >= cutoff)
FindIndex(list, cutoff) ==
    LET hits == {k \in 1..Len(list) : list[k].timestamp >= cutoff}
    IN  IF hits = {} THEN -1 ELSE Min(hits) - 1

\* list.splice(0, deleteCount): a negative deleteCount counts as 0
Splice0(list, deleteCount) ==
    IF deleteCount <= 0 THEN list
    ELSE SubSeq(list, (IF deleteCount > Len(list) THEN Len(list)
                       ELSE deleteCount) + 1, Len(list))

\* clearOldAlerts(maxAgeMs) at time t
clearOldAlerts(list, maxAgeMs, t) ==
    Splice0(list, FindIndex(list, t - maxAgeMs))

InitAlerts ==
    /\ buf = <<>>
    /\ NoInspection
    /\ NoRecoveryCall
    /\ now = 0
    /\ NoUpload
    /\ NoBatch
    /\ NoPool
    /\ NoAlerts

\* a threshold check raises an alert: this.alerts.push(alert)
RaiseAlert ==
    \E type \in {"memory", "cpu"} :
        /\ Len(alerts) < MaxAlerts
        /\ alerts' = Append(alerts, [type |-> type, timestamp |-> now])
        /\ lastClear' = <<>>
        /\ UNCHANGED <<engineVars, recoveryVars, now, uploadVars, batchVars,
                       poolVars>>

\* twelve hours pass
HoursPass ==
    /\ now + 43200000 <= MaxAlertClock
    /\ now' = now + 43200000
    /\ lastClear' = <<>>
    /\ UNCHANGED <<engineVars, recoveryVars, uploadVars, batchVars, poolVars,
                   alerts>>

\* monitor.clearOldAlerts(maxAgeMs), maxAgeMs 24 hours (the default) or 12
DoClearOldAlerts ==
    \E maxAgeMs \in {86400000, 43200000} :
        /\ alerts' = clearOldAlerts(alerts, maxAgeMs, now)
        /\ lastClear' = <<[before |-> alerts, cutoff |-> now - maxAgeMs]>>
        /\ UNCHANGED <<engineVars, recoveryVars, now, uploadVars, batchVars,
                       poolVars>>

NextAlerts ==
    \/ RaiseAlert
    \/ HoursPass
    \/ DoClearOldAlerts

SpecAlerts == InitAlerts /\ [][NextAlerts]_vars


(***************************************************************************)
(* The structure validator called on buffers that reach the end of the     *)
(* header window of MAX_HEADER_SIZE bytes.                                  *)
(***************************************************************************)
\* the signature is moved up to this many bytes past the last position at
\* which it still ends inside the header window, and as many before it
MaxHeaderShift == 2

\* n bytes of filling: blanks, the last of them replaced by the bytes of end
Filling(n, end) ==
    [k \in 1..n |-> IF k > n - Len(end) THEN end[k - (n - Len(end))] ELSE 32]

\* the buffers validated: filling, then a signature, a near miss or no
\* signature, then nothing or an end-of-file line.  The filling is empty
\* or so long that the signature ends near the end of the header window;
\* it ends with a blank, with the two bytes of an e with acute accent or
\* with a byte that is no UTF-8.
HeaderBuffers ==
    {Filling(n, unit) \o sig \o tail :
        n \in {0} \cup {k \in 0..(MAX_HEADER_SIZE + MaxHeaderShift) :
                            k >= MAX_HEADER_SIZE - 8 - MaxHeaderShift},
        unit \in {<<32>>, <<195, 169>>, <<233>>},
        sig \in {<<37, 80, 68, 70, 45, 49, 46, 52, 10>>, <<37, 80, 68, 70,
          45, 49, 46, 55>>, <<37, 80, 68, 70, 45, 49, 52, 10>>, <<37, 80, 68,
          70, 45, 97, 46, 52, 10>>,
                 <<78, 111, 116, 32, 97, 32, 80, 68, 70>>, <<>>},
        tail \in {<<>>, <<10, 37, 37, 69, 79, 70, 10>>}}

InitHeader ==
    /\ buf \in HeaderBuffers
    /\ NoInspection
    /\ NoRecoveryCall
    /\ now = 0
    /\ NoUpload
    /\ NoBatch
    /\ NoPool
    /\ NoAlerts

NextHeader == DoValidatePDFStructure

SpecHeader == InitHeader /\ [][NextHeader]_vars


(***************************************************************************)
(* BatchProcessor.processFiles: one file after the other is stored, added  *)
(* as a job and polled with getJobStatus until the job is reported         *)
(* completed or failed.  The jobs run as in the batch processor above.     *)
(***************************************************************************)
\* how many files are handed to processFiles, at most
MaxFiles == 2
\* polls of one job are counted up to this number
MaxPolls == 2

\* the loop of processFiles goes on to the next file with one more result
PushResult(f, status) ==
    [f EXCEPT !.results = Append(@, status), !.file = @ + 1, !.jobId = 0,
              !.polls = 0]

\* checkStatus() on the processor p: status is this.getJobStatus(jobId);
\* resolve or reject when status?.status is 'completed' or 'failed',
\* setTimeout(checkStatus, 1000) otherwise
checkStatus(f, p) ==
    IF f.jobId \notin p.activeJobs
         /\ \A k \in 1..Len(p.queue) : p.queue[k] # f.jobId
    THEN [f EXCEPT !.polls = IF @ < MaxPolls THEN @ + 1 ELSE @]
    ELSE IF getJobStatus(p, f.jobId).status = "completed"
    THEN PushResult(f, "completed")
    ELSE IF getJobStatus(p, f.jobId).status = "failed"
    THEN PushResult(f, "failed")
    ELSE [f EXCEPT !.polls = IF @ < MaxPolls THEN @ + 1 ELSE @]

InitFiles ==
    /\ buf = <<>>
    /\ NoInspection
    /\ NoRecoveryCall
    /\ now = 0
    /\ NoUpload
    /\ bp = NewBatchProcessor
    /\ started = FALSE
    /\ batchCompleted = FALSE
    /\ pf \in {ProcessFilesCall(n) : n \in 0..MaxFiles}
    /\ NoPool
    /\ NoAlerts

\* the loop body up to the first poll: the file is stored and added as a
\* job, and checkStatus() is called at once
StoreAndAddJob ==
    /\ ~pf.returned
    /\ pf.jobId = 0
    /\ pf.file <= pf.files
    /\ bp' = addJob(bp)
    /\ pf' = checkStatus([pf EXCEPT !.jobId = Len(bp.jobs) + 1], addJob(bp))
    /\ batchCompleted' = FALSE
    /\ UNCHANGED <<engineVars, recoveryVars, now, uploadVars, started,
      poolVars,
                   alertVars>>

\* file.arrayBuffer() or securelyStoreFile throws: the catch block pushes a
\* failed result
StoreFails ==
    /\ ~pf.returned
    /\ pf.jobId = 0
    /\ pf.file <= pf.files
    /\ pf' = PushResult(pf, "failed")
    /\ batchCompleted' = FALSE
    /\ UNCHANGED <<engineVars, recoveryVars, now, uploadVars, bp, started,
                   poolVars, alertVars>>

\* the timer set by checkStatus fires; a timer runs only when no promise
\* continuation is pending (the return of handleJobError)
PollJobStatus ==
    /\ pf.jobId # 0
    /\ bp.failing = {}
    /\ pf' = checkStatus(pf, bp)
    /\ batchCompleted' = FALSE
    /\ UNCHANGED <<engineVars, recoveryVars, now, uploadVars, bp, started,
                   poolVars, alertVars>>

\* return results
ProcessFilesReturns ==
    /\ ~pf.returned
    /\ pf.jobId = 0
    /\ pf.file > pf.files
    /\ pf' = [pf EXCEPT !.returned = TRUE]
    /\ batchCompleted' = FALSE
    /\ UNCHANGED <<engineVars, recoveryVars, now, uploadVars, bp, started,
                   poolVars, alertVars>>

NextFiles ==
    \/ StoreAndAddJob
    \/ StoreFails
    \/ PollJobStatus
    \/ ProcessFilesReturns
    \/ PipelineSucceeds
    \/ PipelineFails
    \/ RetryDelayEnds
    \/ FailureReturns
    \/ ReportGenerated

\* every step that can be taken is taken in the end: each await of the
\* pipeline, each retry delay and each timer finishes
SpecFiles ==
    /\ InitFiles
    /\ [][NextFiles]_vars
    /\ WF_vars(StoreAndAddJob \/ StoreFails)
    /\ WF_vars(PollJobStatus)
    /\ WF_vars(ProcessFilesReturns)
    /\ WF_vars(PipelineSucceeds \/ PipelineFails)
    /\ WF_vars(RetryDelayEnds)
    /\ WF_vars(FailureReturns)
    /\ WF_vars(ReportGenerated)


(***************************************************************************)
(* Properties.                                                             *)
(***************************************************************************)
\* the sanity floor of 100 bytes
MIN_FILE_SIZE == 100

C2_UndersizedRejected ==
    ("repairPDF" \in called /\ Len(buf) < MIN_FILE_SIZE)
        => rres.isValid = FALSE /\ rres.error # undefined

\* C3: whenever repairPDF returned isValid = true with repaired bytes,
\* validatePDF of those bytes reports them valid with no errors.
C3_RepairedRevalidates ==
    ("validatePDF" \in called /\ rres.isValid /\ rres.repairedPDF # <<>>)
        => pres.isValid /\ pres.errors = <<>>

C6_EmptyAllFalse ==
    (vcalls >= 1 /\ buf = <<>>)
        => /\ vres.isValid = FALSE
           /\ vres.details.headerValid = FALSE
           /\ vres.details.xrefValid = FALSE
           /\ vres.details.streamValid = FALSE

C8_Severity ==
    "checkPDFCorruption" \in called
        => LET h == Len(cres.corruptions.header)
               x == Len(cres.corruptions.xref)
               s == Len(cres.corruptions.streams)
           IN  /\ h > 0 => cres.severity = "CRITICAL"
               /\ (h = 0 /\ (x > 0 \/ s > 2)) => cres.severity = "HIGH"
               /\ (h = 0 /\ x = 0 /\ s \in {1, 2}) => cres.severity = "MEDIUM"
               /\ (h = 0 /\ x = 0 /\ s = 0) => cres.severity = "LOW"
               /\ (cres.severity = "LOW") <=> ~cres.isCorrupted

C8_Witness ==
    /\ "checkPDFCorruption" \in called
    /\ cres.corruptions.header = <<>>
    /\ cres.corruptions.xref = <<>>
    /\ Len(cres.corruptions.streams) = 2
    /\ cres.severity = "MEDIUM"

\* C9: with k 'stream' keywords and k 'endstream' keywords the stream bucket
\* holds no 'Mismatched stream/endstream pairs' issue; with k of one and k + 1
\* of the other it holds exactly one, naming both counts.
C9_StreamBalance ==
    "checkPDFCorruption" \in called
        => LET t == TextDecode(buf)
               e == MatchCount(t, S_endstream)
               \* a 'stream' keyword is one that is not the tail of 'endstream'
               s == Cardinality({i \in 1..Len(t) :
                        IsAt(t, i, S_stream) /\ ~IsAt(t, i - 3, S_endstream)})
               mismatches ==
                   SelectSeq(cres.corruptions.streams,
                             LAMBDA m : m.text = "Mismatched stream/endstream pairs")
           IN  /\ s = e => mismatches = <<>>
               /\ (s = e + 1 \/ e = s + 1)
                     => mismatches =
                          <<Issue("Mismatched stream/endstream pairs", s, e)>>

\* C10: whenever the decoded text lacks '\nxref\n', the xref bucket is exactly
\* <<"Missing cross-reference table">>, isCorrupted is true and the repair
\* strategy contains "Rebuild cross-reference table".
C10_MissingXref ==
    ("checkPDFCorruption" \in called
        /\ ~Includes(TextDecode(buf), <<10>> \o S_xref \o <<10>>))
        => /\ cres.corruptions.xref = <<Issue("Missing cross-reference table", 0, 0)>>
           /\ cres.isCorrupted
           /\ \E i \in 1..Len(cres.repairStrategy) :
                  cres.repairStrategy[i] = "Rebuild cross-reference table"

\* the valid minimal PDF with its 'xref' keyword deleted has been classified
C10_Witness ==
    /\ "checkPDFCorruption" \in called
    /\ IsAt(buf, 1, S_PDF)
    /\ Includes(buf, S_startxref)
    /\ IsAt(buf, 29, <<10, 10, 48, 32, 50, 10>>)
    /\ cres.corruptions.xref = <<Issue("Missing cross-reference table", 0, 0)>>

\* C11: MISSING_HEADER recovery succeeds on every input, the empty one and
\* one that already has a header included: the result is a two-line header
\* that starts with '%PDF-1.7', followed by the input bytes unchanged.
C11_HeaderPrepended ==
    recType = "MISSING_HEADER" =>
        LET out == recres.recoveredData
            n   == Len(out) - Len(buf)
        IN  /\ recres.success = TRUE
            /\ n > 0
            /\ SubSeq(out, n + 1, Len(out)) = buf
            /\ IsAt(out, 1, <<37, 80, 68, 70, 45, 49, 46, 55, 10, 37>>)
            /\ out[n] = 10
            /\ Cardinality({k \in 1..n : out[k] = 10}) = 2

C11_Witness ==
    /\ recType = "MISSING_HEADER"
    /\ IsAt(buf, 1, S_PDF)
    /\ recres.success = TRUE
    /\ Len(recres.recoveredData) > Len(buf)

\* the positions of the keyword 'stream' in b ('endstream' ends with one)
StreamKeywords(b) == {i \in 1..Len(b) : IsAt(b, i, S_stream)}

\* every 'stream' that opens a stream is followed by a newline, every
\* 'endstream' is preceded by one, there is a stream, and every /Length n
\* in front of a stream gives the number of bytes between the delimiters
WellFormedStreams(b) ==
    /\ \E i \in StreamKeywords(b) : ~IsAt(b, i - 3, S_endstream)
    /\ \A i \in StreamKeywords(b) :
           IF IsAt(b, i - 3, S_endstream) THEN IsAt(b, i - 4, <<10>>)
           ELSE IsAt(b, i + 6, <<10>>)
    /\ \A q \in 1..Len(b) :
           LengthPatternAt(b, q) # <<>> =>
               ParseInt(SubSeq(b, RunEnd(b, q + 7, "\\s"),
                               RunEnd(b, RunEnd(b, q + 7, "\\s"), "\\d") - 1))
                 = LengthPatternAt(b, q)[2] - (LengthPatternAt(b, q)[1] + 7)

\* the bodies of the streams of b: what lies between each 'stream\n' and
\* the next '\nendstream'
StreamBodies(b) ==
    {SubSeq(b, i + 7, IndexOf(b, <<10>> \o S_endstream, i + 7) - 1) :
        i \in {j \in StreamKeywords(b) :
                  /\ ~IsAt(b, j - 3, S_endstream)
                  /\ IsAt(b, j + 6, <<10>>)
                  /\ IndexOf(b, <<10>> \o S_endstream, j + 7) > 0}}

\* how many newlines stand directly before or after a 'stream' or an
\* 'endstream' keyword of b
KeywordNewlines(b) ==
    Cardinality({i \in StreamKeywords(b) : IsAt(b, i + 6, <<10>>)})
    + Cardinality({i \in StreamKeywords(b) :
                      IF IsAt(b, i - 3, S_endstream) THEN IsAt(b, i - 4,
                        <<10>>)
                      ELSE IsAt(b, i - 1, <<10>>)})

\* C12: MISMATCHED_STREAM recovery of a buffer whose streams already have
\* correct delimiters and correct /Length values leaves every stream body
\* unchanged and puts no further newline next to a 'stream' or 'endstream'.
C12_WellFormedStreamsKept ==
    (recType = "MISMATCHED_STREAM" /\ WellFormedStreams(buf)) =>
        /\ StreamBodies(recres.recoveredData) = StreamBodies(buf)
        /\ KeywordNewlines(recres.recoveredData) = KeywordNewlines(buf)

\* C13: an error type outside the six categories gives success = false and
\* appliedStrategy = 'none' with recoveredData equal to the input, byte for
\* byte, and the input is not modified.
C13_UnsupportedCategory ==
    /\ [](recType \notin RecoveryCategories \cup {undefined} =>
              /\ recres.success = FALSE
              /\ recres.appliedStrategy = "none"
              /\ recres.recoveredData = buf)
    /\ [][buf' = buf]_vars

C13_Witness ==
    /\ recType = "CORRUPTED_FONT"
    /\ Len(buf) > 0
    /\ recres.appliedStrategy = "none"

\* C14: applyRecoveryStrategy answers every buffer and every error type with
\* a result, and whenever the result has success = false its recoveredData
\* is the input, byte for byte.
C14_FailureKeepsInput ==
    recType # undefined =>
        /\ recres.message # undefined
        /\ recres.appliedStrategy # undefined
        /\ (recres.success = FALSE => recres.recoveredData = buf)

C14_Witness ==
    /\ recType = "MISSING_XREF"
    /\ Len(buf) > 0
    /\ recres.success = FALSE
    /\ recres.message = "Recovery partially completed with issues"

\* C15: of the uploads of one client that reach the rate check within one
\* 60-second window, the first 10 pass it (a well-formed one is accepted
\* with isValid = true) and the 11th and later are rejected with isValid =
\* false, 'Rate limit exceeded...' and securityLevel HIGH; after the window
\* the client is accepted again, and other clients do not count.
C15_RateLimit ==
    (upClient # undefined /\ ReachesRateCheck(upFile)) =>
        IF windowUploads[upClient] <= MAX_REQUESTS_PER_WINDOW
        THEN /\ upres.error # "Rate limit exceeded for client"
             /\ IsAt(upFile, 1, S_PDF) => upres.isValid = TRUE
        ELSE upres = [isValid |-> FALSE,
                      error |-> "Rate limit exceeded for client",
                      securityLevel |-> "HIGH"]

\* C16: whenever batchCompleted is emitted, completed + failed = total,
\* inProgress = 0 and queued = 0, and no job is in the queue, in the active
\* set or in a retry delay.
C16_BatchCompletedStats ==
    batchCompleted =>
        /\ bp.stats.completed + bp.stats.failed = bp.stats.total
        /\ bp.stats.inProgress = 0
        /\ bp.stats.queued = 0
        /\ bp.queue = <<>>
        /\ bp.activeJobs = {}
        /\ bp.retryDelay = <<>>

\* C17: after addJob and until startProcessing is called, getJobStatus
\* reports the job with status 'queued' and progress 0, and stats.total and
\* stats.queued have grown by one per job added.
C17_QueuedUntilStarted ==
    ~started =>
        /\ bp.stats.total = Len(bp.jobs)
        /\ bp.stats.queued = Len(bp.jobs)
        /\ \A jobId \in 1..Len(bp.jobs) :
               /\ getJobStatus(bp, jobId) # undefined
               /\ getJobStatus(bp, jobId).status = "queued"
               /\ getJobStatus(bp, jobId).progress = 0

\* C18: once a job is completed, or failed with its retries used up,
\* getJobStatus returns it with that status (and, when failed, with an
\* error) from then on; it never becomes unknown.
C18_TerminalJobsKnown ==
    \A jobId \in 1..Len(bp.jobs) :
        bp.jobs[jobId].status \in {"completed", "failed"} =>
            /\ getJobStatus(bp, jobId) # undefined
            /\ getJobStatus(bp, jobId).status = bp.jobs[jobId].status
            /\ bp.jobs[jobId].status = "failed"
                   => getJobStatus(bp, jobId).error # undefined

\* C19: once MaxConcurrent calls of acquireResource have completed with no
\* release in between, whatever ids they name, a further call does not
\* complete and is counted in waitingRequests; a release lets a waiting
\* call complete, so no call waits while the pool has room; the waiting
\* calls complete in the order they were made.
C19_PoolBlocksAndGrantsInOrder ==
    /\ Cardinality(Holders) <= MaxConcurrent
    /\ rm.stats.waitingRequests =
           Cardinality({k \in 1..Len(acquires) :
                           /\ acquires[k].state = "waiting"
                           /\ \A n \in 1..Len(rm.timers) : rm.timers[n] # k})
    /\ rm.stats.waitingRequests > 0
           => Cardinality(Holders) + Len(rm.timers) >= MaxConcurrent
    /\ \A a, b \in 1..Len(granted) : a < b => granted[a] < granted[b]

\* C20: after clearOldAlerts(maxAgeMs) no alert older than now - maxAgeMs is
\* kept and every alert at least that recent is kept, for every alert list
\* in timestamp order, one whose alerts are all too old included.
C20_OldAlertsCleared ==
    lastClear # <<>> =>
        /\ \A k \in 1..Len(alerts) : alerts[k].timestamp >= lastClear[1].cutoff
        /\ Len(alerts) =
               Cardinality({k \in 1..Len(lastClear[1].before) :
                   lastClear[1].before[k].timestamp >= lastClear[1].cutoff})

\* C21: the header is reported valid exactly when '%PDF-<digit>.<digit>'
\* lies entirely within the first 1024 bytes of the buffer (a shorter
\* buffer is scanned whole); a signature that starts at or after byte 1024
\* or straddles it is not accepted; without a header the result is invalid.
\* (The pattern is applied to the bytes of the buffer here.)
C21_HeaderWindow ==
    vcalls >= 1 =>
        /\ vres.details.headerValid =
               (\E i \in 1..(MAX_HEADER_SIZE - 7) : PDF_HEADER_PATTERN(buf,
                 i))
        /\ ~vres.details.headerValid => ~vres.isValid

\* C21: a signature that straddles the end of the header window is refused
C21_Witness ==
    /\ vcalls >= 1
    /\ Len(buf) > MAX_HEADER_SIZE
    /\ PDF_HEADER_PATTERN(buf, MAX_HEADER_SIZE - 6)
    /\ ~vres.details.headerValid

\* C22: for a buffer whose text starts with '%PDF-' and a version digit
\* outside 1-7 ('%PDF-9.9'), checkPDFCorruption records a labeled header
\* issue, so that severity is CRITICAL and the repair strategy contains
\* 'Reconstruct PDF header'.
C22_InvalidVersionReported ==
    ("checkPDFCorruption" \in called /\ IsAt(buf, 1, S_PDF) /\ Len(buf) >= 6
        /\ buf[6] \in {48, 56, 57})
        => /\ \E k \in 1..Len(cres.corruptions.header) :
                  cres.corruptions.header[k].text =
                      "Header corruption detected: Pattern"
           /\ cres.severity = "CRITICAL"
           /\ \E k \in 1..Len(cres.repairStrategy) :
                  cres.repairStrategy[k] = "Reconstruct PDF header"

\* the object blocks text.match finds in the decoded buffer b
ObjectBlocks(b) ==
    MatchAll("(\\d+)\\s+\\d+\\s+obj[\\s\\S]*?endobj", TextDecode(b), 1)

\* the bytes put into the recovered buffer out behind the first Len(b) - 6
\* bytes of the buffer b, without the six bytes that end out
SynthesizedBlock(b, out) == SubSeq(out, Len(b) - 5, Len(out) - 6)

\* C23: MISSING_XREF recovery of a buffer with n matched object blocks
\* (n >= 0) succeeds and synthesizes 'xref', newline, '0 <n+1>', newline,
\* then the free entry '0000000000 65535 f' and one in-use entry per object
\* in match order, every entry exactly 20 bytes wide.
C23_XrefBlockSynthesized ==
    recType = "MISSING_XREF" =>
        \E n \in {Len(ObjectBlocks(buf))} :
        \E head \in {<<120, 114, 101, 102, 10, 48,
          32>> \o NumberToString(n + 1) \o <<10>>} :
        \E block \in {SynthesizedBlock(buf, recres.recoveredData)} :
            /\ recres.success = TRUE
            /\ IsAt(block, 1, head \o <<48, 48, 48, 48, 48, 48, 48, 48, 48,
              48, 32, 54, 53, 53, 51, 53, 32, 102>>)
            /\ Len(block) = Len(head) + 20 * (n + 1)
            /\ \A k \in 1..n :
                   /\ \A d \in 1..10 : Digit(block[Len(head) + 20 * k + d])
                   /\ IsAt(block, Len(head) + 20 * k + 11, <<32, 48, 48, 48,
                     48, 48, 32, 110>>)

\* the byte offsets at which the object blocks of the buffer b start, from
\* position from on, in the order of the blocks
RECURSIVE ObjectStarts(_, _)
ObjectStarts(b, from) ==
    IF NextMatch("(\\d+)\\s+\\d+\\s+obj[\\s\\S]*?endobj", b,
      from) = 0 THEN <<>>
    ELSE <<NextMatch("(\\d+)\\s+\\d+\\s+obj[\\s\\S]*?endobj", b, from) - 1>>
           \o ObjectStarts(b,
                  MatchEnd("(\\d+)\\s+\\d+\\s+obj[\\s\\S]*?endobj", b,
                      NextMatch("(\\d+)\\s+\\d+\\s+obj[\\s\\S]*?endobj", b,
                        from)))

\* the number written in the first ten bytes of line n of the text s
LineOffset(s, n) ==
    LET starts == {1} \cup {i + 1 : i \in {j \in 1..Len(s) : s[j] = 10}}
        st     == CHOOSE x \in starts : Cardinality({y \in starts : y < x}) = n - 1
    IN  ParseInt(SubSeq(s, st, st + 9))

\* C24: in the table rebuilt by MISSING_XREF recovery the offset of each
\* in-use entry is the byte offset at which the entry's own object block
\* starts in the buffer, provided no two matched blocks have the same text.
C24_EntryOffsets ==
    (/\ recType = "MISSING_XREF"
     /\ recres.success = TRUE
     /\ \A j, k \in 1..Len(ObjectBlocks(buf)) :
            j # k => ObjectBlocks(buf)[j] # ObjectBlocks(buf)[k])
        => \A k \in 1..Len(ObjectBlocks(buf)) :
               LineOffset(SynthesizedBlock(buf, recres.recoveredData), k + 3)
                   = ObjectStarts(buf, 1)[k]

\* C25: MISSING_XREF recovery leaves room for the end-of-file marker: for
\* every input of at least 6 bytes that ends with '%%EOF' the recovered
\* buffer still ends with '%%EOF', and every input byte before the place
\* where the xref block is put is unchanged.
C25_EofMarkerKept ==
    (/\ recType = "MISSING_XREF"
     /\ Len(buf) >= 6
     /\ SliceLast(buf, 5) = S_EOF)
        => /\ SliceLast(recres.recoveredData, 5) = S_EOF
           /\ SubSeq(recres.recoveredData, 1, Len(buf) - 6)
                  = SubSeq(buf, 1, Len(buf) - 6)

\* C26: after MISMATCHED_STREAM recovery every stream matched together with
\* a '/Length <n>' tag carries the byte length of its content in the
\* recovered buffer (the bytes between 'stream', newline and newline,
\* 'endstream'), non-ASCII content included, and the rest of the stream's
\* dictionary is preserved: no dictionary delimiter is lost.
C26_LengthRecomputed ==
    recType = "MISMATCHED_STREAM" =>
        /\ recres.success = TRUE
        /\ \A q \in 1..Len(recres.recoveredData) :
               LengthPatternAt(recres.recoveredData, q) # <<>> =>
                   ParseInt(SubSeq(recres.recoveredData,
                                   RunEnd(recres.recoveredData, q + 7, "\\s"),
                                   RunEnd(recres.recoveredData,
                                          RunEnd(recres.recoveredData, q + 7,
                                            "\\s"),
                                          "\\d") - 1))
                     = LengthPatternAt(recres.recoveredData, q)[2]
                         - (LengthPatternAt(recres.recoveredData, q)[1] + 7)
        /\ MatchCount(recres.recoveredData, <<62, 62>>) = MatchCount(buf,
          <<62, 62>>)
        /\ MatchCount(recres.recoveredData, <<60, 60>>) = MatchCount(buf,
          <<60, 60>>)

\* C27: in every state of the BatchProcessor between processing steps
\* stats.total = stats.queued + stats.inProgress + stats.completed +
\* stats.failed and no counter is negative, under every interleaving of
\* addJob, completions, failures and retry delays.
C27_StatsAddUp ==
    /\ bp.stats.total = bp.stats.queued + bp.stats.inProgress
                          + bp.stats.completed + bp.stats.failed
    /\ bp.stats.total >= 0
    /\ bp.stats.queued >= 0
    /\ bp.stats.inProgress >= 0
    /\ bp.stats.completed >= 0
    /\ bp.stats.failed >= 0

\* C28: at most MAX_CONCURRENT_JOBS jobs have a processing attempt in flight
\* at any time, under every interleaving of addJob, startProcessing,
\* completions, failures and retry delays; a job is never removed from the
\* active set while an attempt on it is running, and never has two attempts
\* at once: it is not queued for another attempt while one is running.
C28_ConcurrencyLimit ==
    /\ Cardinality(bp.processing) <= MAX_CONCURRENT_JOBS
    /\ bp.processing \subseteq bp.activeJobs
    /\ \A k \in 1..Len(bp.queue) : bp.queue[k] \notin bp.processing

\* C29 (state part): no job has more than MAX_RETRIES retries; a job has
\* been attempted once more than it was retried, unless it waits for its
\* next attempt; a failed job was attempted exactly MAX_RETRIES + 1 times,
\* and stats.failed counts each failed job once.
RetriesBounded ==
    /\ \A j \in 1..Len(bp.jobs) :
           /\ bp.jobs[j].retries <= MAX_RETRIES
           /\ bp.jobs[j].attempts =
                  bp.jobs[j].retries + (IF bp.jobs[j].status = "queued" THEN 0 ELSE 1)
           /\ bp.jobs[j].status = "failed" =>
                  /\ bp.jobs[j].retries = MAX_RETRIES
                  /\ bp.jobs[j].attempts = MAX_RETRIES + 1
                  /\ bp.jobs[j].error # undefined
    /\ bp.stats.failed = Cardinality({j \in 1..Len(bp.jobs) : bp.jobs[j].status = "failed"})

\* C29 (step part): each failed attempt with retries left announces the
\* next retry count (retries grows by one, the job is queued again), the
\* failed attempt after the last retry marks the job failed, and a job that
\* is completed or failed is not changed and not queued again.
RetryStep ==
    \A j \in 1..Len(bp.jobs) :
        /\ bp'.jobs[j].retries \in {bp.jobs[j].retries,
          bp.jobs[j].retries + 1}
        /\ bp'.jobs[j].retries = bp.jobs[j].retries + 1 =>
               /\ bp.jobs[j].status = "processing"
               /\ bp'.jobs[j].status = "queued"
               /\ \E k \in 1..Len(bp'.queue) : bp'.queue[k] = j
        /\ (bp.jobs[j].status # "failed" /\ bp'.jobs[j].status = "failed") =>
               /\ bp.jobs[j].status = "processing"
               /\ bp.jobs[j].retries = MAX_RETRIES
               /\ bp'.stats.failed = bp.stats.failed + 1
        /\ bp.jobs[j].status \in {"completed", "failed"} =>
               /\ bp'.jobs[j] = bp.jobs[j]
               /\ \A k \in 1..Len(bp'.queue) : bp'.queue[k] # j

\* C29: a job that fails on every attempt is attempted exactly
\* MAX_RETRIES + 1 = 4 times: jobRetry with retryCount 1, 2, 3, then
\* jobFailed once and stats.failed grows by one; retries never exceeds 3 and
\* a completed or failed job is never queued again.
C29_RetriesThenFailed == []RetriesBounded /\ [][RetryStep]_vars

\* C29: a job has failed for good after its fourth attempt
C29_Witness ==
    \E j \in 1..Len(bp.jobs) :
        /\ bp.jobs[j].status = "failed"
        /\ bp.jobs[j].attempts = MAX_RETRIES + 1
        /\ bp.stats.failed = 1

\* C30: processFiles terminates: provided every processing step of a job
\* finishes, it returns in the end, with exactly one result per submitted
\* file, each completed or failed; its polling loop never waits forever.
C30_ProcessFilesReturns ==
    /\ <>(pf.returned)
    /\ [](pf.returned =>
            /\ Len(pf.results) = pf.files
            /\ \A k \in 1..Len(pf.results) :
                   pf.results[k] \in {"completed", "failed"})

=============================================================================
